---------------------------- MODULE Spec2Model ----------------------------
(***************************************************************************)
(* LeakGuard: indicator extraction and risk scoring (socradar/             *)
(* file_processor.py), credential matching and alert emission (scripts/    *)
(* matching/credential_matcher.py) and the Celery tasks that drive them    *)
(* (scripts/tasks/celery_tasks.py).                                        *)
(*                                                                         *)
(* Conventions.  Python strings whose characters the code inspects are     *)
(* sequences of one-character strings.  Confidence is kept in hundredths   *)
(* (0.85 is 85) and a corpus relevance score in tenths of a point (8.5 is  *)
(* 85), so that score / 10.0 in hundredths is the same integer.  Time is   *)
(* counted in ticks, HourTicks to the hour.                                *)
(***************************************************************************)
EXTENDS Integers, Sequences, FiniteSets, TLC

\* Python's None, for values that are otherwise sequences
None == <<>>

Min(a, b) == IF a <= b THEN a ELSE b

Range(s) == {s[i] : i \in 1..Len(s)}

RECURSIVE Sum(_, _)
Sum(f, S) == IF S = {} THEN 0
             ELSE LET x == CHOOSE y \in S : TRUE IN f[x] + Sum(f, S \ {x})

(***************************************************************************)
(* Bounds.                                                                 *)
(***************************************************************************)
MaxMatches == 2       \* regex matches (all patterns together) in one document
MaxPairs == 21        \* email:password matches in one document
MaxNoise == 1         \* leading pair matches that may be duplicates or short
MaxTime == 2          \* ticks the clock runs
MaxTasks == 2         \* matching passes that are started
MaxLinks == 6         \* links in one batch of validate_links_batch
MaxPeriods == 5       \* half months that pass between stored rows and cleanup
MaxInvocations == 3   \* invocations of process_file_task
MaxRequests == 2      \* requests to scrape the channel
MaxPosted == 2        \* messages posted in the Telegram channel

(***************************************************************************)
(* State.                                                                  *)
(***************************************************************************)
VARIABLES
    content,          \* FileProcessor: what the patterns find in the file's text
    extracted_data,   \* FileProcessor: result of _extract_structured_data
    risk_score,       \* FileProcessor: result of _calculate_risk_score
    hit,              \* _execute_queries: the corpus hit being scored
    search_type,      \* _execute_queries: the strategy that issued the query
    confidence,       \* _calculate_confidence: its result for hit
    conf_pc,          \* "hit" before the hit is scored, "scored" after
    corpus,           \* index telegram-extracted-data: hits a search can return
    monitored,        \* table MonitoredCredential, in order of creation
    leaks,            \* table CredentialLeak, in order of creation
    alerts,           \* table Alert, in order of creation
    now,              \* the clock, in ticks
    queue,            \* matching tasks (or view requests) not started yet
    pool_size,        \* number of workers that take tasks
    pc,               \* per worker: where it is in process_matches_for_user
    user,             \* per worker: the owner the pass is for
    cutoff_time,      \* per worker: cutoff_time of find_matches_for_user
    searches,         \* per worker: the corpus searches of the pass and
                      \* what each came back with
    matches,          \* per worker: the list find_matches_for_user returned
    index,            \* per worker: position of the for loop in matches
    credential_leak,  \* per worker: id of the leak create_alert_from_match
                      \* has just stored
    alerts_created,   \* per worker: the counter of the pass
    errors,           \* per worker: "Error creating alert" lines logged in
                      \* the pass
    returned,         \* per worker: what its last finished pass returned
    telegram_messages,\* table TelegramMessage: the link fields of each message
    telegram_links,   \* table TelegramLink, in order of creation
    initial_probes,   \* per (message, url): validate_url calls made for it
                      \* by process_telegram_message_links
    probe_count,      \* per (message, url): validate_url calls made for it
                      \* by process_telegram_message_links and by
                      \* retry_failed_links
    link_call,        \* the last call of a link function: which one, for
                      \* which message, and what each of its probes returned
    task,             \* Celery: the task the worker has a request for
    task_pc,          \* Celery: where the request is
    request_retries,  \* Celery: self.request.retries of the request
    countdowns,       \* Celery: the countdowns self.retry was called with
                      \* for the request, in order
    users_left,       \* match_credentials_for_all_users: users the loop has
                      \* still to take
    user_log,         \* match_credentials_for_all_users: per user taken,
                      \* what process_matches_for_user did
    batch_pc,         \* validate_links_batch: where the call is
    link_task,        \* validate_links_batch: per link, where its
                      \* validate_with_semaphore task is
    semaphore,        \* validate_links_batch: the value of the semaphore
    valid_results,    \* validate_links_batch: the list it returns (links
                      \* by position in the batch)
    logged,           \* validate_links_batch: links whose task's exception
                      \* was logged
    processed_files,  \* the ProcessedFile table
    file_key,         \* process_file_task: per invocation, its (message,
                      \* s3_uri)
    file_pc,          \* process_file_task: per invocation, where it is
    file_created,     \* process_file_task: per invocation, created
    file_result,      \* process_file_task: per invocation, result['success']
    file_returned,    \* process_file_task: per invocation, what it returned
    process_file_calls, \* the calls of FileProcessor.process_file, in order
    channel,          \* the row of the TelegramChannel
    stored,           \* the message_id of its TelegramMessage rows
    posted,           \* the highest message id in the Telegram channel
    view_pc,          \* scrape_telegram_channel: per request, where it is
    view_channel,     \* scrape_telegram_channel: per request, channel
    scrape_pc,        \* scrape_channel_task and scrape_channel_async: per
                      \* request, where the scraping is
    sync,             \* per request, the scraping runs inside the view
    offset_id,        \* per request, last_scraped_msg_id as passed on
    task_channel,     \* scrape_channel_task: per request, channel
    scraper_channel,  \* scrape_channel_async: per request, channel
    cursor,           \* scrape_channel_async: per request, the message
                      \* iter_messages gave last
    last_message_id,  \* scrape_channel_async: per request, last_message_id
    result            \* scrape_channel_task: per request, result

riskVars == <<content, extracted_data, risk_score>>
confVars == <<hit, search_type, confidence, conf_pc>>
storeVars == <<monitored, leaks, alerts>>
workerVars == <<pc, user, cutoff_time, searches, matches, index,
                credential_leak, alerts_created, errors, returned>>
matchVars == <<storeVars, corpus, now, queue, pool_size, workerVars>>
linkVars == <<telegram_messages, telegram_links, initial_probes, probe_count,
              link_call>>
taskVars == <<task, task_pc, request_retries, countdowns, users_left, user_log>>
batchVars == <<batch_pc, link_task, semaphore, valid_results, logged>>
fileVars == <<processed_files, file_key, file_pc, file_created, file_result,
              file_returned, process_file_calls>>
scrapeVars == <<channel, stored, posted, view_pc, view_channel, scrape_pc,
                sync, offset_id, task_channel, scraper_channel, cursor,
                last_message_id, result>>
jobVars == <<taskVars, batchVars, fileVars, scrapeVars>>
vars == <<riskVars, confVars, matchVars, linkVars, jobVars>>

(***************************************************************************)
(* socradar/file_processor.py                                              *)
(***************************************************************************)

\* self.patterns, in insertion order
patterns == <<"email", "password", "username", "domain",
              "ip_address", "phone", "credit_card", "ssn">>

\* str.strip('"\''): drop quote characters from both ends
RECURSIVE LStripQuotes(_)
LStripQuotes(s) == IF s # <<>> /\ Head(s) \in {"\"", "'"}
                   THEN LStripQuotes(Tail(s)) ELSE s

RECURSIVE RStripQuotes(_)
RStripQuotes(s) == IF s # <<>> /\ s[Len(s)] \in {"\"", "'"}
                   THEN RStripQuotes(SubSeq(s, 1, Len(s) - 1)) ELSE s

StripQuotes(s) == RStripQuotes(LStripQuotes(s))

\* the order-preserving removal of duplicates at the end of
\* _extract_structured_data (seen / unique_credentials)
RECURSIVE UniqueCredentials(_, _)
UniqueCredentials(cs, seen) ==
    IF cs = <<>> THEN <<>>
    ELSE LET key == <<Head(cs).email, Head(cs).password>> IN
         IF key \in seen THEN UniqueCredentials(Tail(cs), seen)
         ELSE <<Head(cs)>> \o UniqueCredentials(Tail(cs), seen \cup {key})

\* the pairs of one credential pattern that pass the length check
KeptPairs(ms) ==
    LET keep == SelectSeq(ms, LAMBDA m : Len(m[2]) > 3)
    IN [i \in 1..Len(keep) |->
           [email |-> keep[i][1], password |-> keep[i][2],
            source |-> "regex_extraction"]]

\* the value stored under a pattern's name: list(set(...)), kept as the set
PatternResult(data_type, found) ==
    IF data_type = "password"
    THEN {StripQuotes(m) : m \in {x \in Range(found) : Len(StripQuotes(x)) > 3}}
    ELSE Range(found)

\* pattern.findall(content) for one of self.patterns.  The text is kept as
\* what the patterns find in it: c.found for the matches the text holds on
\* their own, and every email:password pair of the text also holds an email
\* and a domain
FindAll(data_type, c) ==
    LET pairs == c.colon \o c.comma IN
    CASE data_type = "email" ->
           c.found[data_type] \o [i \in 1..Len(pairs) |-> pairs[i][1]]
      [] data_type = "domain" ->
           c.found[data_type] \o [i \in 1..Len(pairs) |-> "corp.com"]
      [] OTHER -> c.found[data_type]

\* _extract_structured_data: the dict starts with the plural keys; the loop
\* over self.patterns stores each result under the pattern's own name; the
\* pairs of the two credential patterns go to 'credentials'.  (The
\* 'raw_content' preview is a string no score reads; it is left out.)
ExtractStructuredData(c) ==
    LET initial == [k \in {"emails", "passwords", "usernames", "domains",
                           "ip_addresses", "phones", "credit_cards", "ssns",
                           "credentials"}
                      |-> {}]
        byPattern == [k \in Range(patterns) |-> PatternResult(k, FindAll(k, c))]
        creds == UniqueCredentials(KeptPairs(c.colon) \o KeptPairs(c.comma), {})
    IN ("credentials" :> Range(creds)) @@ byPattern @@ initial

\* the scores table of _calculate_risk_score
scores == [emails |-> 1, passwords |-> 3, usernames |-> 1, domains |-> 1,
           ip_addresses |-> 2, phones |-> 2, credit_cards |-> 10, ssns |-> 10,
           credentials |-> 5]

\* dict.get(key, [])
Get(d, k) == IF k \in DOMAIN d THEN d[k] ELSE {}

\* _calculate_risk_score without the cap of its last line
CalculateRiskScore_NoCap(ex) ==
    Sum([k \in DOMAIN scores |-> Cardinality(Get(ex, k)) * scores[k]],
        DOMAIN scores)

\* _calculate_risk_score
CalculateRiskScore(ex) ==
    Min(Sum([k \in DOMAIN scores |-> Cardinality(Get(ex, k)) * scores[k]],
            DOMAIN scores), 100)

\* process_file, from the extraction on (lines 80-84), on a file whose text
\* holds the matches c
ProcessFile(c) ==
    /\ content' = c
    /\ extracted_data' = ExtractStructuredData(c)
    /\ risk_score' = CalculateRiskScore(extracted_data')
    /\ UNCHANGED <<confVars, matchVars, linkVars, jobVars>>

\* what a pattern can find: one value a pattern (two emails), and for
\* passwords a bare one, the same one quoted and one that is too short
TokenPool(data_type) ==
    CASE data_type = "password" ->
           {<<"a", "b", "c", "d">>, <<"'", "a", "b", "c", "d", "'">>,
            <<"a", "b", "c">>}
      [] data_type = "email" -> {1, 2}
      [] data_type = "domain" -> {"corp.com"}
      [] OTHER -> {"v1"}

NoMatches == [found |-> [k \in Range(patterns) |-> <<>>],
              colon |-> <<>>, comma |-> <<>>]

FoundCount(c) == Sum([k \in Range(patterns) |-> Len(c.found[k])], Range(patterns))

PairCount(c) == Len(c.colon) + Len(c.comma)

\* a file is processed whose text holds one more match of one pattern
ProcessFileWithMatch ==
    /\ FoundCount(content) < MaxMatches
    /\ \E k \in Range(patterns) : \E tok \in TokenPool(k) :
          ProcessFile([content EXCEPT !.found[k] = Append(@, tok)])

\* a file is processed whose text holds one more email:password line (first
\* credential pattern) with an email not seen before
ProcessFileWithPair ==
    /\ PairCount(content) < MaxPairs
    /\ ProcessFile([content EXCEPT !.colon =
                       Append(@, <<PairCount(content) + 1, <<"a", "b", "c", "d">>>>)])

\* a file is processed whose text holds one more pair that repeats an email,
\* has a short password, or is written with a comma (second pattern)
ProcessFileWithOddPair ==
    /\ PairCount(content) < MaxNoise
    /\ \E e \in {1} :
       \E pw \in {<<"a", "b", "c", "d">>, <<"a", "b", "c">>} :
          \/ ProcessFile([content EXCEPT !.colon = Append(@, <<e, pw>>)])
          \/ ProcessFile([content EXCEPT !.comma = Append(@, <<e, pw>>)])


(***************************************************************************)
(* Claims on the risk score.                                               *)
(***************************************************************************)

\* the weight of an indicator type as the specification lists it, by the
\* name under which the extractor stores the indicators of that type
SpecifiedWeight == [email |-> 1, username |-> 1, domain |-> 1, ip_address |-> 2,
                    phone |-> 2, password |-> 3, credentials |-> 5,
                    credit_card |-> 10, ssn |-> 10]

\* the number of distinct indicators of a type the extractor produced
IndicatorCount(ex, t) == Cardinality(ex[t])

\* C3: the risk score of a document is min(100, sum over the indicator types
\* of (number of distinct indicators of the type the extractor produced for
\* the document) x (weight of the type))
C3_ScoreIsWeightedSum ==
    risk_score =
        Min(100, Sum([t \in DOMAIN SpecifiedWeight |->
                         IndicatorCount(extracted_data, t) * SpecifiedWeight[t]],
                     DOMAIN SpecifiedWeight))

\* C4: the risk score always lies in 0..100, and a document in which no
\* indicator count is lower than before never gets a lower score
C4_ScoreBoundedAndMonotone ==
    /\ [](risk_score \in 0..100)
    /\ [][(\A t \in DOMAIN extracted_data :
              IndicatorCount(extracted_data', t) >= IndicatorCount(extracted_data, t))
           => risk_score' >= risk_score]_vars

\* C4 witness: a document with more than twenty credential pairs, whose
\* weighted sum passes 100, has been scored
C4_Witness ==
    /\ IndicatorCount(extracted_data, "credentials") > 20
    /\ risk_score = 100

(***************************************************************************)
(* scripts/matching/credential_matcher.py: confidence of a corpus hit      *)
(***************************************************************************)

\* str.lower() on one character
LowerChar(c) ==
    LET upper == <<"A", "B", "C", "D", "E", "F", "G", "H", "I", "J", "K", "L", "M",
                  "N", "O", "P", "Q", "R", "S", "T", "U", "V", "W", "X", "Y", "Z">>
        lower == <<"a", "b", "c", "d", "e", "f", "g", "h", "i", "j", "k", "l", "m",
                  "n", "o", "p", "q", "r", "s", "t", "u", "v", "w", "x", "y", "z">>
    IN IF \E i \in 1..26 : upper[i] = c
       THEN lower[CHOOSE i \in 1..26 : upper[i] = c]
       ELSE c

Lower(s) == [i \in 1..Len(s) |-> LowerChar(s[i])]

\* sub in s
Contains(sub, s) ==
    \E i \in 1..(Len(s) - Len(sub) + 1) : SubSeq(s, i, i + Len(sub) - 1) = sub

Digits == {"0", "1", "2", "3", "4", "5", "6", "7", "8", "9"}

\* re.search(r'\d{3,}', s)
HasDigitRun3(s) ==
    \E i \in 1..(Len(s) - 2) : \A j \in i..(i + 2) : s[j] \in Digits

\* dict.get(key, default)
DictGet(d, k, default) == IF k \in DOMAIN d THEN d[k] ELSE default

\* _calculate_confidence with 0.1 where the code adds 0.2
CalculateConfidence_SmallBoost(opensearch_score, stype, source) ==
    LET base_confidence == Min(opensearch_score, 100)
        message_text == Lower(DictGet(source, "message_text", <<>>))
        extracted == DictGet(source, "extracted_data", <<>>)
        structured == IF stype \in DOMAIN extracted THEN 10 ELSE 0
        context ==
            IF stype = "email" /\ Contains(<<"@">>, message_text) THEN 10
            ELSE IF stype = "domain"
                    /\ (\/ Contains(<<".", "c", "o", "m">>, message_text)
                        \/ Contains(<<".", "o", "r", "g">>, message_text)) THEN 10
            ELSE IF stype = "phone" /\ HasDigitRun3(message_text) THEN 10
            ELSE 0
    IN Min(base_confidence + structured + context, 100)

\* _calculate_confidence
CalculateConfidence(opensearch_score, stype, source) ==
    LET base_confidence == Min(opensearch_score, 100)
        message_text == Lower(DictGet(source, "message_text", <<>>))
        extracted == DictGet(source, "extracted_data", <<>>)
        structured == IF stype \in DOMAIN extracted THEN 20 ELSE 0
        context ==
            IF stype = "email" /\ Contains(<<"@">>, message_text) THEN 10
            ELSE IF stype = "domain"
                    /\ (\/ Contains(<<".", "c", "o", "m">>, message_text)
                        \/ Contains(<<".", "o", "r", "g">>, message_text)) THEN 10
            ELSE IF stype = "phone" /\ HasDigitRun3(message_text) THEN 10
            ELSE 0
    IN Min(base_confidence + structured + context, 100)

\* the six strategies of _search_for_credential
SearchTypes == {"email", "username", "domain", "phone", "api_key", "password"}

\* relevance scores a corpus can hand back, in tenths of a point
ScorePool == {-50, 0, 5, 60, 65, 70, 80, 85, 100, 150}

\* message texts: none, an address, upper-case and lower-case domains, digit
\* runs of length two and three, and a text with all of them
TextPool ==
    {<<>>, <<"a", "@", "b">>, <<"x", ".", "c", "o">>, <<"X", ".", "C", "O", "M">>,
     <<"x", ".", "o", "r", "g">>, <<"5", "5", " ", "5">>, <<"5", "5", "5">>,
     <<"a", "@", "x", ".", "c", "o", "m", " ", "1", "2", "3", "4">>}

\* key sets of the structured extraction map of a document
ExtractedKeysPool == {{}, {"email"}, {"phone", "password"}, {"api_key", "url"},
                      {"username", "domain"}}

\* the _source of a hit: a dict that may lack either key
SourcePool ==
    {[message_text |-> t, extracted_data |-> [k \in ks |-> <<"v">>]] :
        t \in TextPool, ks \in ExtractedKeysPool}
    \cup {[message_text |-> t] : t \in TextPool}
    \cup {[extracted_data |-> [k \in ks |-> <<"v">>]] : ks \in ExtractedKeysPool}

\* one iteration of the loop over hits in _execute_queries, up to the
\* computation of the confidence
ScoreHit ==
    /\ conf_pc = "hit"
    /\ confidence' = CalculateConfidence(hit["_score"], search_type, hit["_source"])
    /\ conf_pc' = "scored"
    /\ UNCHANGED <<hit, search_type, riskVars, matchVars, linkVars, jobVars>>


(***************************************************************************)
(* Claims on the confidence.                                               *)
(***************************************************************************)

\* C5: the confidence of a hit lies in [0.0, 1.0] whatever relevance score
\* the corpus returns
C5_ConfidenceInRange ==
    conf_pc = "scored" => confidence \in 0..100

\* the context boost as the specification states it
SpecifiedContextBoost(stype, text) ==
    \/ stype = "email" /\ \E i \in 1..Len(text) : text[i] = "@"
    \/ stype = "domain" /\ \E tld \in {<<".", "c", "o", "m">>, <<".", "o", "r", "g">>} :
                               Contains(tld, Lower(text))
    \/ stype = "phone" /\ \E i \in 1..Len(text) :
                              /\ i + 2 <= Len(text)
                              /\ {text[i], text[i + 1], text[i + 2]} \subseteq Digits

\* C6: the confidence is min(1.0, min(score/10, 1.0) + 0.2 if the searched
\* type is a key of the hit's extraction map + 0.1 if the context boost of
\* that type applies); username, api_key and password have no context boost
C6_ConfidenceFormula ==
    conf_pc = "scored" =>
        LET src == hit["_source"]
            text == IF "message_text" \in DOMAIN src THEN src["message_text"] ELSE <<>>
            keys == IF "extracted_data" \in DOMAIN src
                    THEN DOMAIN src["extracted_data"] ELSE {}
            base == Min(hit["_score"], 100)
            inMap == IF search_type \in keys THEN 20 ELSE 0
            boost == IF SpecifiedContextBoost(search_type, text) THEN 10 ELSE 0
        IN /\ confidence = Min(100, base + inMap + boost)
           /\ search_type \in {"username", "api_key", "password"}
                 => confidence = Min(100, base + inMap)

\* C6 witness: a hit was scored whose confidence has all three parts and
\* stays below the cap
C6_Witness ==
    /\ conf_pc = "scored"
    /\ confidence = 95
    /\ hit["_score"] = 65
    /\ search_type = "domain"

(***************************************************************************)
(* scripts/matching/credential_matcher.py: search strategies and           *)
(* find_matches_for_user                                                   *)
(***************************************************************************)

\* timedelta(hours=1) of the dedup filter, in ticks
HourTicks == 1

\* hours_back: the default of the parameter, and what every caller passes
hours_back == 24

RECURSIVE Flatten(_)
Flatten(ss) == IF ss = <<>> THEN <<>> ELSE Head(ss) \o Flatten(Tail(ss))

Reverse(s) == [i \in 1..Len(s) |-> s[Len(s) + 1 - i]]

\* s.split('@')[1], for s with an '@': the text between the first '@' and
\* the next one (or the end)
AfterAt(s) ==
    LET i == CHOOSE k \in 1..Len(s) : s[k] = "@" /\ \A j \in 1..(k - 1) : s[j] # "@"
        rest == SubSeq(s, i + 1, Len(s))
        stop == IF \E k \in 1..Len(rest) : rest[k] = "@"
                THEN CHOOSE k \in 1..Len(rest) :
                        rest[k] = "@" /\ \A j \in 1..(k - 1) : rest[j] # "@"
                ELSE Len(rest) + 1
    IN SubSeq(rest, 1, stop - 1)

\* re.sub(r'[^\d+]', '', phone)
NormalizePhone(s) == SelectSeq(s, LAMBDA c : c \in Digits \cup {"+"})

\* api_key[:8]
Prefix8(s) == SubSeq(s, 1, Min(8, Len(s)))

\* one query body: a bool/must of a match or wildcard clause on message_text
\* and the range clause message_date >= cutoff_time
Query(kind, text, cutoff) == [kind |-> kind, message_text |-> text, gte |-> cutoff]

\* the queries list of _search_email_patterns
SearchEmailPatterns(credential, cutoff) ==
    LET email_value == Lower(credential.value)
        domain == IF Contains(<<"@">>, email_value) THEN AfterAt(email_value) ELSE None
    IN <<Query("match", email_value, cutoff)>>
       \o (IF domain # <<>> THEN <<Query("match", domain, cutoff)>> ELSE <<>>)

\* the queries list of _search_username_patterns
SearchUsernamePatterns(credential, cutoff) ==
    LET username == Lower(credential.value)
    IN <<Query("match", username, cutoff),
         Query("wildcard", <<"*">> \o username \o <<"*">>, cutoff)>>

\* the queries list of _search_domain_patterns
SearchDomainPatterns(credential, cutoff) ==
    LET domain == Lower(credential.value)
    IN <<Query("match", domain, cutoff),
         Query("wildcard", <<"*", ".">> \o domain, cutoff)>>

\* the queries list of _search_phone_patterns
SearchPhonePatterns(credential, cutoff) ==
    LET phone == credential.value
        normalized_phone == NormalizePhone(phone)
    IN <<Query("match", phone, cutoff), Query("match", normalized_phone, cutoff)>>

\* the queries list of _search_api_key_patterns
SearchApiKeyPatterns(credential, cutoff) ==
    LET api_key == credential.value
    IN <<Query("match", api_key, cutoff),
         Query("wildcard", Prefix8(api_key) \o <<"*">>, cutoff)>>

\* the queries list of _search_password_patterns with a second, wildcard query
SearchPasswordPatterns_TwoQueries(credential, cutoff) ==
    <<Query("match", credential.value, cutoff),
      Query("wildcard", credential.value \o <<"*">>, cutoff)>>

\* the queries list of _search_password_patterns
SearchPasswordPatterns(credential, cutoff) ==
    <<Query("match", credential.value, cutoff)>>

\* _search_for_credential: the queries the strategy of the credential's type
\* hands to _execute_queries; no strategy, and no query, for any other type
SearchForCredential(credential, cutoff) ==
    CASE credential.credential_type = "email" -> SearchEmailPatterns(credential, cutoff)
      [] credential.credential_type = "username" -> SearchUsernamePatterns(credential, cutoff)
      [] credential.credential_type = "domain" -> SearchDomainPatterns(credential, cutoff)
      [] credential.credential_type = "phone" -> SearchPhonePatterns(credential, cutoff)
      [] credential.credential_type = "api_key" -> SearchApiKeyPatterns(credential, cutoff)
      [] credential.credential_type = "password" -> SearchPasswordPatterns(credential, cutoff)
      [] OTHER -> <<>>

\* the match dict _execute_queries builds for one hit (channel_name and
\* channel_id, copied from the hit like message_id, are left out)
MakeMatch(credential, h, stype) ==
    [credential |-> credential,
     source_document |-> h["_source"],
     confidence |-> CalculateConfidence(h["_score"], stype, h["_source"]),
     timestamp |-> DictGet(h["_source"], "message_date", None),
     message_id |-> DictGet(h["_source"], "message_id", None),
     search_type |-> stype,
     opensearch_score |-> h["_score"]]

\* what one search of the corpus comes back with: an exception, or hits
SearchFailed == [ok |-> FALSE, hits |-> <<>>]
SearchHits(hs) == [ok |-> TRUE, hits |-> hs]

\* _execute_queries: outcomes[i] is what the search for queries[i] comes back
\* with; a failed search is logged and the loop goes on with the next query
ExecuteQueries(queries, credential, stype, outcomes) ==
    Flatten([i \in 1..Len(queries) |->
               IF outcomes[i].ok
               THEN [k \in 1..Len(outcomes[i].hits) |->
                        MakeMatch(credential, outcomes[i].hits[k], stype)]
               ELSE <<>>])

DigitValue(c) == CHOOSE n \in 0..9 : <<"0", "1", "2", "3", "4", "5", "6", "7", "8", "9">>[n + 1] = c

\* a < b for two Python strings of digits
RECURSIVE StrLess(_, _)
StrLess(a, b) ==
    IF b = <<>> THEN FALSE
    ELSE IF a = <<>> THEN TRUE
    ELSE IF Head(a) # Head(b) THEN DigitValue(Head(a)) < DigitValue(Head(b))
    ELSE StrLess(Tail(a), Tail(b))

\* comparing the keys of two matches raises TypeError: the confidences are
\* equal and one timestamp is None while the other is a string
KeysIncomparable(a, b) ==
    /\ a.confidence = b.confidence
    /\ (a.timestamp = None) # (b.timestamp = None)

\* list.sort raises: it has to compare every two keys that are next to each
\* other in the result
SortRaises(ms) ==
    \E i, j \in 1..Len(ms) : KeysIncomparable(ms[i], ms[j])

\* key(a) < key(b) for Python tuples whose comparison does not raise
KeyLess(a, b) ==
    \/ a.confidence < b.confidence
    \/ /\ a.confidence = b.confidence
       /\ a.timestamp # None
       /\ b.timestamp # None
       /\ StrLess(a.timestamp, b.timestamp)

RECURSIVE InsertDescending(_, _)
InsertDescending(m, sorted) ==
    IF sorted = <<>> THEN <<m>>
    ELSE IF KeyLess(Head(sorted), m) THEN <<m>> \o sorted
    ELSE <<Head(sorted)>> \o InsertDescending(m, Tail(sorted))

\* list.sort(key=..., reverse=True): descending and stable
RECURSIVE SortDescending(_)
SortDescending(ms) ==
    IF ms = <<>> THEN <<>>
    ELSE InsertDescending(ms[Len(ms)],
                          SortDescending(SubSeq(ms, 1, Len(ms) - 1)))

\* the filter of find_matches_for_user without user_id
MonitoredCreds_AnyUser(table, user_id) ==
    Reverse(SelectSeq(table, LAMBDA c : c.is_active))

\* the watchlist query of find_matches_for_user without is_active=True
MonitoredCreds_AnyStatus(table, user_id) ==
    Reverse(SelectSeq(table, LAMBDA c : c.user = user_id))

\* MonitoredCredential.objects.filter(user_id=..., is_active=True), in the
\* model's default ordering, newest first
MonitoredCreds(table, user_id) ==
    Reverse(SelectSeq(table, LAMBDA c : c.user = user_id /\ c.is_active))

\* the searches find_matches_for_user makes for the credentials creds, one
\* entry a query, in the order of the two nested loops
SearchPlan(creds, cutoff) ==
    Flatten([i \in 1..Len(creds) |->
               LET qs == SearchForCredential(creds[i], cutoff)
               IN [k \in 1..Len(qs) |-> [credential |-> creds[i], query |-> qs[k]]]])

\* the matches list of find_matches_for_user before it is sorted
CollectMatches(creds, cutoff, searched) ==
    Flatten([i \in 1..Len(creds) |->
               LET qs == SearchForCredential(creds[i], cutoff)
                   mine == SelectSeq(searched, LAMBDA e : e.credential = creds[i])
               IN IF qs = <<>> THEN <<>>
                  ELSE ExecuteQueries(qs, creds[i], creds[i].credential_type,
                                      [k \in 1..Len(qs) |-> mine[k].outcome])])

\* find_matches_for_user without the sort of line 71
FindMatchesForUser_Unsorted(table, user_id, cutoff, searched) ==
    LET monitored_creds == MonitoredCreds(table, user_id)
        found == CollectMatches(monitored_creds, cutoff, searched)
    IN IF monitored_creds = <<>> THEN <<>>
       ELSE IF SortRaises(found) THEN <<>>
       ELSE found

\* find_matches_for_user: searched is SearchPlan with what each search came
\* back with; an exception (the sort's TypeError) is logged and [] returned
FindMatchesForUser(table, user_id, cutoff, searched) ==
    LET monitored_creds == MonitoredCreds(table, user_id)
        found == CollectMatches(monitored_creds, cutoff, searched)
    IN IF monitored_creds = <<>> THEN <<>>
       ELSE IF SortRaises(found) THEN <<>>
       ELSE SortDescending(found)

(***************************************************************************)
(* scripts/matching/credential_matcher.py: alert emission                  *)
(***************************************************************************)

Workers == {1, 2}

Users == {1, 2}

\* the severity create_alert_from_match derives, with >= for the first >
Severity_AtLeast(conf, credential_type) ==
    IF conf >= 80
    THEN (IF credential_type \in {"password", "api_key"} THEN "critical" ELSE "high")
    ELSE IF conf > 60
    THEN (IF credential_type \in {"password", "api_key"} THEN "high" ELSE "medium")
    ELSE "medium"

\* the severity create_alert_from_match derives
Severity(conf, credential_type) ==
    IF conf > 80
    THEN (IF credential_type \in {"password", "api_key"} THEN "critical" ELSE "high")
    ELSE IF conf > 60
    THEN (IF credential_type \in {"password", "api_key"} THEN "high" ELSE "medium")
    ELSE "medium"

\* the dedup filter of process_matches_for_user with the window bound the
\* wrong way round (created_at__lte)
ExistingAlert_Lte(store_alerts, store_leaks, user_id, match, t) ==
    \E i \in 1..Len(store_alerts) :
        LET a == store_alerts[i]
            l == store_leaks[a.credential_leak]
        IN /\ a.user = user_id
           /\ l.monitored_credential = match.credential.id
           /\ l.leaked_value = match.credential.value
           /\ a.created_at <= t - HourTicks

\* the dedup filter of process_matches_for_user, evaluated at time t:
\* Alert.objects.filter(user, credential_leak__monitored_credential,
\* credential_leak__leaked_value, created_at__gte=now - 1 hour).exists()
ExistingAlert(store_alerts, store_leaks, user_id, match, t) ==
    \E i \in 1..Len(store_alerts) :
        LET a == store_alerts[i]
            l == store_leaks[a.credential_leak]
        IN /\ a.user = user_id
           /\ l.monitored_credential = match.credential.id
           /\ l.leaked_value = match.credential.value
           /\ a.created_at >= t - HourTicks

\* the row CredentialLeak.objects.create stores in create_alert_from_match
NewLeak(id, user_id, match, t) ==
    [id |-> id,
     user |-> user_id,
     monitored_credential |-> match.credential.id,
     credential_type |-> match.credential.credential_type,
     leaked_value |-> match.credential.value,
     severity |-> Severity(match.confidence, match.credential.credential_type),
     confidence_score |-> match.confidence,
     leak_date |-> DictGet(match.source_document, "message_date", None),
     status |-> "new",
     discovered_at |-> t]

\* the row Alert.objects.create stores in create_alert_from_match
NewAlert(id, user_id, match, leak_id, t) ==
    [id |-> id,
     user |-> user_id,
     alert_type |-> "leak_detected",
     priority |-> Severity(match.confidence, match.credential.credential_type),
     credential_leak |-> leak_id,
     is_resolved |-> FALSE,
     created_at |-> t]

\* the locals of a pass are gone when it returns
Return(w, value) ==
    /\ pc' = [pc EXCEPT ![w] = "idle"]
    /\ returned' = [returned EXCEPT ![w] = value]
    /\ user' = [user EXCEPT ![w] = 0]
    /\ cutoff_time' = [cutoff_time EXCEPT ![w] = 0]
    /\ searches' = [searches EXCEPT ![w] = <<>>]
    /\ matches' = [matches EXCEPT ![w] = <<>>]
    /\ index' = [index EXCEPT ![w] = 0]
    /\ credential_leak' = [credential_leak EXCEPT ![w] = 0]
    /\ alerts_created' = [alerts_created EXCEPT ![w] = 0]
    /\ errors' = [errors EXCEPT ![w] = 0]

\* what a search of the corpus can come back with: an exception, no hit, any
\* one document, or any two documents in either order
OutcomePool(docs) ==
    {SearchFailed, SearchHits(<<>>)}
    \cup {SearchHits(<<h>>) : h \in docs}
    \cup {SearchHits(<<p[1], p[2]>>) : p \in {q \in docs \X docs : q[1] # q[2]}}

\* find_matches_for_user(user_id) by worker w at the current time; every
\* search of the corpus comes back with one of OutcomePool.  The cutoff and
\* the searches are on record while the call is the whole task (keep), and
\* gone once process_matches_for_user goes on with the result
Find(w, user_id, keep) ==
    LET cutoff == now - hours_back * HourTicks
        plan == SearchPlan(MonitoredCreds(monitored, user_id), cutoff)
    IN \E oc \in [1..Len(plan) -> OutcomePool(corpus)] :
         LET searched == [i \in 1..Len(plan) |->
                            [credential |-> plan[i].credential,
                             query |-> plan[i].query,
                             outcome |-> oc[i]]]
         IN /\ searches' = [searches EXCEPT ![w] = IF keep THEN searched ELSE <<>>]
            /\ matches' = [matches EXCEPT ![w] =
                             FindMatchesForUser(monitored, user_id, cutoff, searched)]
            /\ cutoff_time' = [cutoff_time EXCEPT ![w] = IF keep THEN cutoff ELSE 0]
            /\ user' = [user EXCEPT ![w] = user_id]

\* a caller runs find_matches_for_user on its own
FindMatches(w) ==
    /\ pc[w] = "idle"
    /\ w <= pool_size
    /\ queue > 0
    /\ queue' = queue - 1
    /\ \E user_id \in Users : Find(w, user_id, TRUE)
    /\ pc' = [pc EXCEPT ![w] = "found"]
    /\ UNCHANGED <<index, credential_leak, alerts_created, errors, returned>>
    /\ UNCHANGED <<storeVars, corpus, now, pool_size, riskVars, confVars, linkVars, jobVars>>

\* process_matches_for_user, lines 399-402: a worker takes a matching task
\* (match_credentials_for_user, one user of match_credentials_for_all_users,
\* or the process_telegram_data view) for an owner with a watchlist, and
\* finds the matches
Start(w) ==
    /\ pc[w] = "idle"
    /\ w <= pool_size
    /\ queue > 0
    /\ queue' = queue - 1
    /\ \E user_id \in {monitored[i].user : i \in 1..Len(monitored)} :
          Find(w, user_id, FALSE)
    /\ pc' = [pc EXCEPT ![w] = "loop"]
    /\ index' = [index EXCEPT ![w] = 1]
    /\ alerts_created' = [alerts_created EXCEPT ![w] = 0]
    /\ errors' = [errors EXCEPT ![w] = 0]
    /\ UNCHANGED <<credential_leak, returned>>
    /\ UNCHANGED <<storeVars, corpus, now, pool_size, riskVars, confVars, linkVars, jobVars>>

\* lines 403-412: the dedup query for the next match; the match is skipped
\* if an alert exists, else create_alert_from_match is entered
CheckExisting(w) ==
    /\ pc[w] = "loop"
    /\ index[w] <= Len(matches[w])
    /\ IF ExistingAlert(alerts, leaks, user[w], matches[w][index[w]], now)
       THEN /\ index' = [index EXCEPT ![w] = @ + 1]
            /\ pc' = pc
       ELSE /\ pc' = [pc EXCEPT ![w] = "create_leak"]
            /\ index' = index
    /\ UNCHANGED <<user, cutoff_time, searches, matches, credential_leak,
                   alerts_created, errors, returned>>
    /\ UNCHANGED <<storeVars, corpus, now, queue, pool_size, riskVars, confVars, linkVars, jobVars>>

\* lines 420-422: the dedup query raises; the pass logs it and returns 0
LookupFails(w) ==
    /\ pc[w] = "loop"
    /\ index[w] <= Len(matches[w])
    /\ Return(w, 0)
    /\ UNCHANGED <<storeVars, corpus, now, queue, pool_size, riskVars, confVars, linkVars, jobVars>>

\* lines 356-373: CredentialLeak.objects.create stores the leak
CreateLeak(w) ==
    /\ pc[w] = "create_leak"
    /\ leaks' = Append(leaks, NewLeak(Len(leaks) + 1, user[w],
                                       matches[w][index[w]], now))
    /\ credential_leak' = [credential_leak EXCEPT ![w] = Len(leaks) + 1]
    /\ pc' = [pc EXCEPT ![w] = "create_alert"]
    /\ UNCHANGED <<user, cutoff_time, searches, matches, index,
                   alerts_created, errors, returned>>
    /\ UNCHANGED <<monitored, alerts, corpus, now, queue, pool_size,
                   riskVars, confVars, linkVars, jobVars>>

\* lines 392-394 after line 356 raised: nothing is stored, the error is
\* logged, None is returned and the loop goes on
CreateLeakFails(w) ==
    /\ pc[w] = "create_leak"
    /\ errors' = [errors EXCEPT ![w] = @ + 1]
    /\ index' = [index EXCEPT ![w] = @ + 1]
    /\ pc' = [pc EXCEPT ![w] = "loop"]
    /\ UNCHANGED <<user, cutoff_time, searches, matches, credential_leak,
                   alerts_created, returned>>
    /\ UNCHANGED <<storeVars, corpus, now, queue, pool_size, riskVars, confVars, linkVars, jobVars>>

\* lines 379-390 and 414-415: Alert.objects.create stores the alert, the
\* alert is returned and counted
CreateAlert(w) ==
    /\ pc[w] = "create_alert"
    /\ alerts' = Append(alerts, NewAlert(Len(alerts) + 1, user[w],
                                          matches[w][index[w]],
                                          credential_leak[w], now))
    /\ alerts_created' = [alerts_created EXCEPT ![w] = @ + 1]
    /\ index' = [index EXCEPT ![w] = @ + 1]
    /\ credential_leak' = [credential_leak EXCEPT ![w] = 0]
    /\ pc' = [pc EXCEPT ![w] = "loop"]
    /\ UNCHANGED <<user, cutoff_time, searches, matches, errors, returned>>
    /\ UNCHANGED <<monitored, leaks, corpus, now, queue, pool_size,
                   riskVars, confVars, linkVars, jobVars>>

\* lines 392-394 after line 379 raised: the leak stays stored, the error is
\* logged, None is returned and the loop goes on
CreateAlertFails(w) ==
    /\ pc[w] = "create_alert"
    /\ errors' = [errors EXCEPT ![w] = @ + 1]
    /\ index' = [index EXCEPT ![w] = @ + 1]
    /\ credential_leak' = [credential_leak EXCEPT ![w] = 0]
    /\ pc' = [pc EXCEPT ![w] = "loop"]
    /\ UNCHANGED <<user, cutoff_time, searches, matches, alerts_created, returned>>
    /\ UNCHANGED <<storeVars, corpus, now, queue, pool_size, riskVars, confVars, linkVars, jobVars>>

\* lines 417-418: the loop is over and the count is returned
Finish(w) ==
    /\ pc[w] = "loop"
    /\ index[w] > Len(matches[w])
    /\ Return(w, alerts_created[w])
    /\ UNCHANGED <<storeVars, corpus, now, queue, pool_size, riskVars, confVars, linkVars, jobVars>>

\* process_matches_for_user, line 402: find_matches_for_user has returned
\* (line 400); the counter is set and the loop over the matches is entered
BeginLoop(w) ==
    /\ pc[w] = "found"
    /\ pc' = [pc EXCEPT ![w] = "loop"]
    /\ index' = [index EXCEPT ![w] = 1]
    /\ alerts_created' = [alerts_created EXCEPT ![w] = 0]
    /\ errors' = [errors EXCEPT ![w] = 0]
    /\ UNCHANGED <<user, cutoff_time, searches, matches, credential_leak, returned>>
    /\ UNCHANGED <<storeVars, corpus, now, queue, pool_size, riskVars, confVars, linkVars, jobVars>>

\* time passes
Tick ==
    /\ now < MaxTime
    /\ now' = now + 1
    /\ UNCHANGED <<storeVars, corpus, queue, pool_size, workerVars,
                   riskVars, confVars, linkVars, jobVars>>

(***************************************************************************)
(* socradar/utils.py and socradar/models.py: links of Telegram messages    *)
(***************************************************************************)

\* the index of the first place where sub starts in s, 0 if there is none
Find1(sub, s) ==
    LET at == {i \in 1..(Len(s) - Len(sub) + 1) : SubSeq(s, i, i + Len(sub) - 1) = sub}
    IN IF at = {} THEN 0 ELSE CHOOSE i \in at : \A j \in at : i <= j

\* urlparse(url).netloc for a url that starts with a scheme and "://": what
\* follows "://" up to the first '/', '?' or '#'
Netloc(url) ==
    LET rest == SubSeq(url, Find1(<<":", "/", "/">>, url) + 3, Len(url))
        stops == {i \in 1..Len(rest) : rest[i] \in {"/", "?", "#"}}
        stop == IF stops = {} THEN Len(rest) + 1
                ELSE CHOOSE i \in stops : \A j \in stops : i <= j
    IN SubSeq(rest, 1, stop - 1)

\* urlparse(url) raises ValueError("Invalid IPv6 URL"): one of '[' and ']'
\* is in the netloc without the other
UrlparseRaises(url) ==
    Contains(<<"[">>, Netloc(url)) # Contains(<<"]">>, Netloc(url))

\* telegram_domains of is_telegram_link
telegram_domains ==
    {<<"t", ".", "m", "e">>,
     <<"t", "e", "l", "e", "g", "r", "a", "m", ".", "m", "e">>,
     <<"t", "e", "l", "e", "g", "r", "a", "m", ".", "o", "r", "g">>,
     <<"w", "e", "b", ".", "t", "e", "l", "e", "g", "r", "a", "m", ".", "o", "r", "g">>,
     <<"d", "e", "s", "k", "t", "o", "p", ".", "t", "e", "l", "e", "g", "r", "a", "m", ".", "o", "r", "g">>}

\* is_telegram_link
is_telegram_link(url) ==
    IF UrlparseRaises(url) THEN FALSE
    ELSE \E d \in telegram_domains : Contains(d, Lower(Netloc(url)))

\* the shortener list of calculate_risk_score
shorteners ==
    {<<"b", "i", "t", ".", "l", "y">>, <<"t", "i", "n", "y", "u", "r", "l">>,
     <<"s", "h", "o", "r", "t", ".", "l", "i", "n", "k">>, <<"g", "o", "o", ".", "g", "l">>,
     <<"t", ".", "c", "o">>, <<"i", "s", ".", "g", "d">>, <<"v", ".", "g", "d">>,
     <<"o", "w", ".", "l", "y">>, <<"b", "u", "f", "f", ".", "l", "y">>}

\* the extension list of calculate_risk_score
extensions == {<<".", "e", "x", "e">>, <<".", "b", "a", "t">>, <<".", "c", "m", "d">>, <<".", "s", "c", "r">>, <<".", "p", "i", "f">>}

\* re.search(r'[0-9]{4,}', s)
HasDigitRun4(s) ==
    \E i \in 1..(Len(s) - 3) : \A j \in i..(i + 3) : s[j] \in Digits

Max(a, b) == IF a >= b THEN a ELSE b

\* calculate_risk_score
calculate_risk_score(url, is_telegram) ==
    LET domain == Lower(Netloc(url))
        rules ==
            (IF \E sh \in shorteners : Contains(sh, domain) THEN 30 ELSE 0)
            + (IF HasDigitRun4(domain) THEN 20 ELSE 0)
            + (IF Len(domain) > 50 THEN 15 ELSE 0)
            + (IF Contains(<<"p", "h", "i", "s", "h", "i", "n", "g">>, domain) \/ Contains(<<"s", "c", "a", "m">>, domain) THEN 50 ELSE 0)
            + (IF \E ext \in extensions : Contains(ext, Lower(url)) THEN 40 ELSE 0)
        risk_score_ == IF UrlparseRaises(url) THEN 0 + 25
                       ELSE IF is_telegram THEN Max(0, rules - 20)
                       ELSE rules
    IN Min(100, Max(0, risk_score_))

\* extract_links_from_text: text is kept as the list of the urls url_pattern
\* finds in it; duplicates are dropped, the order of first occurrence stays
RECURSIVE UniqueUrls(_, _)
UniqueUrls(urls, seen) ==
    IF urls = <<>> THEN <<>>
    ELSE IF Head(urls) \in seen THEN UniqueUrls(Tail(urls), seen)
    ELSE <<Head(urls)>> \o UniqueUrls(Tail(urls), seen \cup {Head(urls)})

extract_links_from_text(text) == UniqueUrls(text, {})

\* what requests.get does for a probe: a response with a status code, or
\* one of the exceptions validate_url catches
ProbeOutcomes ==
    {[kind |-> "response", status_code |-> c] : c \in {200, 204, 301, 404, 500}}
    \cup {[kind |-> k, status_code |-> 0] :
             k \in {"Timeout", "ConnectionError", "RequestException"}}

\* validate_url: the status it returns for what requests.get did
validate_url(outcome) ==
    IF outcome.kind = "response"
    THEN (IF outcome.status_code = 200 THEN "valid"
          ELSE IF 300 <= outcome.status_code /\ outcome.status_code < 400 THEN "redirect"
          ELSE IF 400 <= outcome.status_code /\ outcome.status_code < 500 THEN "invalid"
          ELSE "error")
    ELSE IF outcome.kind = "Timeout" THEN "timeout"
    ELSE "error"

\* TelegramLink.mark_as_valid, mark_as_invalid and mark_as_error (the
\* validation date, the error message and the response data are left out)
mark_as_valid(link) == [link EXCEPT !.validation_status = "valid"]

mark_as_invalid(link) == [link EXCEPT !.validation_status = "invalid"]

\* mark_as_error that leaves retry_count as it is
mark_as_error_keep_count(link, increment_retry) ==
    [link EXCEPT !.validation_status = "error"]

mark_as_error(link, increment_retry) ==
    [link EXCEPT !.validation_status = "error",
                 !.retry_count = IF increment_retry THEN @ + 1 ELSE @]

\* the if / elif / else on the status validate_url returned, the same in
\* process_telegram_message_links (lines 220-238) and retry_failed_links
\* (lines 277-296): mark_as_error is called with increment_retry True in
\* both, by default in the first and by keyword in the second
MarkLink(link, status) ==
    IF status = "valid" THEN mark_as_valid(link)
    ELSE IF status = "invalid" THEN mark_as_invalid(link)
    ELSE mark_as_error(link, TRUE)

\* the counter of status_counts / retry_counts that goes up for a status
CountedAs(status) ==
    IF status \in {"valid", "invalid"} THEN status ELSE "error"

\* the row TelegramLink.objects.create stores (lines 207-214)
NewLink(id, url, message) ==
    LET is_telegram == is_telegram_link(url)
        risk_score_ == calculate_risk_score(url, is_telegram)
    IN [id |-> id, url |-> url, message |-> message,
        validation_status |-> "pending", retry_count |-> 0,
        is_telegram_link |-> is_telegram,
        risk_score |-> risk_score_,
        is_suspicious |-> risk_score_ > 50]

\* the lookup of lines 192-195 with the message filter the wrong way round
existing_link_other_message(table, message, url) ==
    \E i \in 1..Len(table) : table[i].message # message /\ table[i].url = url

\* TelegramLink.objects.filter(message=message, url=url).first() finds a row
existing_link(table, message, url) ==
    \E i \in 1..Len(table) : table[i].message = message /\ table[i].url = url

\* the loop of process_telegram_message_links over links[i..], oc[i] being
\* what requests.get does if links[i] is probed: the table, the counts and
\* the probes at the end of the loop
RECURSIVE ProcessLoop(_, _, _, _, _)
ProcessLoop(message, links, i, acc, oc) ==
    IF i > Len(links) THEN acc
    ELSE IF existing_link(acc.table, message, links[i])
    THEN ProcessLoop(message, links, i + 1, acc, oc)
    ELSE LET link_obj == NewLink(Len(acc.table) + 1, links[i], message)
             status == validate_url(oc[i])
         IN ProcessLoop(message, links, i + 1,
                [table |-> Append(acc.table, MarkLink(link_obj, status)),
                 counts |-> [acc.counts EXCEPT ![CountedAs(status)] = @ + 1],
                 probed |-> Append(acc.probed,
                                   [message |-> message, url |-> links[i],
                                    outcome |-> oc[i], status |-> status])],
                oc)

\* lines 241-246: the validation status of the message from the counts of
\* the call
MessageStatus(status_counts) ==
    IF status_counts.valid > 0 /\ status_counts.invalid = 0 /\ status_counts.error = 0
    THEN "valid"
    ELSE IF status_counts.invalid > 0 \/ status_counts.error > 0 THEN "invalid"
    ELSE "pending"

\* process_telegram_message_links(message)
process_telegram_message_links(m) ==
    \E links \in {extract_links_from_text(telegram_messages[m].text)} :
    IF links = <<>>
    THEN /\ link_call' = [op |-> "process", message |-> m, probed |-> <<>>,
                          returned |-> [total |-> 0, valid |-> 0, invalid |-> 0,
                                        error |-> 0]]
         /\ UNCHANGED <<telegram_messages, telegram_links, initial_probes,
                        probe_count>>
         /\ UNCHANGED <<riskVars, confVars, matchVars, jobVars>>
    ELSE \E oc \in [1..Len(links) -> ProbeOutcomes] :
           LET start == [table |-> telegram_links,
                         counts |-> [total |-> Len(links), valid |-> 0,
                                     invalid |-> 0, error |-> 0],
                         probed |-> <<>>]
           IN \E done \in {ProcessLoop(m, links, 1, start, oc)} :
              /\ telegram_links' = done.table
              /\ telegram_messages' =
                    [telegram_messages EXCEPT
                        ![m].has_links = TRUE,
                        ![m].link_count = Len(links),
                        ![m].validation_status = MessageStatus(done.counts)]
              /\ initial_probes' =
                    [k \in DOMAIN initial_probes |->
                        initial_probes[k]
                        + Cardinality({j \in 1..Len(done.probed) :
                                          <<done.probed[j].message,
                                            done.probed[j].url>> = k})]
              /\ probe_count' =
                    [k \in DOMAIN probe_count |->
                        probe_count[k]
                        + Cardinality({j \in 1..Len(done.probed) :
                                          <<done.probed[j].message,
                                            done.probed[j].url>> = k})]
              /\ link_call' = [op |-> "process", message |-> m,
                               probed |-> done.probed, returned |-> done.counts]
              /\ UNCHANGED <<riskVars, confVars, matchVars, jobVars>>

\* max_retries: the default of the parameter of retry_failed_links, which
\* its caller leaves as it is
max_retries == 3

\* the rows the filter of retry_failed_links selects, by position, with <=
\* for retry_count__lt
failed_links_lte(table) ==
    {i \in 1..Len(table) :
        /\ table[i].validation_status \in {"error", "timeout"}
        /\ table[i].retry_count <= max_retries}

\* the rows the filter of retry_failed_links selects, by position
failed_links(table) ==
    {i \in 1..Len(table) :
        /\ table[i].validation_status \in {"error", "timeout"}
        /\ table[i].retry_count < max_retries}

\* the positions of a set in increasing order
RECURSIVE Ascending(_)
Ascending(S) ==
    IF S = {} THEN <<>>
    ELSE LET lo == CHOOSE i \in S : \A j \in S : i <= j
         IN <<lo>> \o Ascending(S \ {lo})

\* retry_failed_links()
retry_failed_links ==
    \E failed \in {failed_links(telegram_links)} :
    \E oc \in [failed -> ProbeOutcomes] :
       LET order == Ascending(failed)
           counted(c) == Cardinality({i \in failed : CountedAs(validate_url(oc[i])) = c})
       IN /\ telegram_links' =
                [i \in 1..Len(telegram_links) |->
                    IF i \in failed
                    THEN MarkLink(telegram_links[i], validate_url(oc[i]))
                    ELSE telegram_links[i]]
          /\ link_call' =
                [op |-> "retry", message |-> 0,
                 probed |-> [j \in 1..Len(order) |->
                               [message |-> telegram_links[order[j]].message,
                                url |-> telegram_links[order[j]].url,
                                outcome |-> oc[order[j]],
                                status |-> validate_url(oc[order[j]])]],
                 returned |-> [total |-> Cardinality(failed),
                               valid |-> counted("valid"),
                               invalid |-> counted("invalid"),
                               error |-> counted("error")]]
          /\ probe_count' =
                [k \in DOMAIN probe_count |->
                    IF \E i \in failed :
                          <<telegram_links[i].message, telegram_links[i].url>> = k
                    THEN probe_count[k] + 1
                    ELSE probe_count[k]]
          /\ UNCHANGED <<telegram_messages, initial_probes>>
          /\ UNCHANGED <<riskVars, confVars, matchVars, jobVars>>

\* a row of TelegramMessage that no link function has touched
Message(text) ==
    [text |-> text, has_links |-> FALSE, link_count |-> 0,
     validation_status |-> "pending"]

\* no link function has been called
NoCall == [op |-> "none", message |-> 0, probed |-> <<>>,
           returned |-> [total |-> 0, valid |-> 0, invalid |-> 0, error |-> 0]]

\* the (message, url) pairs of a table of messages
LinkKeys(msgs) ==
    UNION {{<<m, u>> : u \in Range(msgs[m].text)} : m \in DOMAIN msgs}

\* there are no messages and no links
LinkIdle ==
    /\ telegram_messages = <<>>
    /\ telegram_links = <<>>
    /\ initial_probes = <<>>
    /\ probe_count = <<>>
    /\ link_call = NoCall

(***************************************************************************)
(* scripts/tasks/celery_tasks.py: the tasks and their retries              *)
(***************************************************************************)
\* max_retries of @app.task(bind=True, max_retries=3)
task_max_retries == 3

\* the worker has no request
TasksIdle ==
    /\ task = "none"
    /\ task_pc = "idle"
    /\ request_retries = 0
    /\ countdowns = <<>>
    /\ users_left = <<>>
    /\ user_log = <<>>

TaskNames ==
    {"process_new_telegram_data", "match_credentials_for_all_users",
     "send_alert_notifications"}

\* the beat schedule (or a caller) sends a request for task t
ApplyTask(t) ==
    /\ task_pc \in {"idle", "succeeded", "failed"}
    /\ task' = t
    /\ task_pc' = "queued"
    /\ request_retries' = 0
    /\ countdowns' = <<>>
    /\ users_left' = <<>>
    /\ user_log' = <<>>
    /\ UNCHANGED <<riskVars, confVars, matchVars, linkVars, batchVars, fileVars,
                 scrapeVars>>

\* the worker starts to execute the request, the first time or after the
\* countdown of a retry
BeginTask ==
    /\ task_pc \in {"queued", "waiting"}
    /\ task_pc' = "body"
    /\ users_left' = <<>>
    /\ user_log' = <<>>
    /\ UNCHANGED <<task, request_retries, countdowns>>
    /\ UNCHANGED <<riskVars, confVars, matchVars, linkVars, batchVars, fileVars,
                 scrapeVars>>

\* self.retry with a countdown that grows by a minute each time
SelfRetry_Linear ==
    IF request_retries + 1 <= task_max_retries
    THEN /\ countdowns' = Append(countdowns, 60 * (request_retries + 1))
         /\ request_retries' = request_retries + 1
         /\ task_pc' = "waiting"
    ELSE /\ task_pc' = "failed"
         /\ UNCHANGED <<countdowns, request_retries>>

\* except Exception ... raise self.retry(countdown=60 * (2 ** self.request.
\* retries)): Celery queues the request again with retries + 1 after the
\* countdown while retries + 1 <= max_retries, and fails the task otherwise
SelfRetry ==
    IF request_retries + 1 <= task_max_retries
    THEN /\ countdowns' = Append(countdowns, 60 * (2 ^ request_retries))
         /\ request_retries' = request_retries + 1
         /\ task_pc' = "waiting"
    ELSE /\ task_pc' = "failed"
         /\ UNCHANGED <<countdowns, request_retries>>

\* the body of the task raises outside the loop over the users:
\* process_telegram_messages (line 42), the query of the users or
\* CredentialMatcher() (lines 59-63)
TaskBodyFails ==
    /\ task_pc = "body"
    /\ task \in {"process_new_telegram_data", "match_credentials_for_all_users"}
    /\ SelfRetry
    /\ UNCHANGED <<task, users_left, user_log>>
    /\ UNCHANGED <<riskVars, confVars, matchVars, linkVars, batchVars, fileVars,
                 scrapeVars>>

\* send_alert_notifications, lines 162-166 and 204-206: datetime and
\* timedelta are names the module does not import (cleanup_old_data imports
\* them into its own locals), so building the filter raises NameError
\* before any alert is read, and the except of line 204 calls self.retry
NotificationsFail ==
    /\ task_pc = "body"
    /\ task = "send_alert_notifications"
    /\ SelfRetry
    /\ UNCHANGED <<task, users_left, user_log>>
    /\ UNCHANGED <<riskVars, confVars, matchVars, linkVars, batchVars, fileVars,
                 scrapeVars>>

\* process_new_telegram_data, lines 42-45: the extractor returns
ProcessDataSucceeds ==
    /\ task_pc = "body"
    /\ task = "process_new_telegram_data"
    /\ task_pc' = "succeeded"
    /\ UNCHANGED <<task, request_retries, countdowns, users_left, user_log>>
    /\ UNCHANGED <<riskVars, confVars, matchVars, linkVars, batchVars, fileVars,
                 scrapeVars>>

\* User.objects.filter(api_monitored_credentials__is_active=True).distinct()
ActiveUsers(table) ==
    Ascending({table[i].user : i \in {j \in 1..Len(table) : table[j].is_active}})

\* match_credentials_for_all_users, lines 59-66: the users are read and
\* the loop is entered
EnterUserLoop ==
    /\ task_pc = "body"
    /\ task = "match_credentials_for_all_users"
    /\ task_pc' = "loop"
    /\ users_left' = ActiveUsers(monitored)
    /\ user_log' = <<>>
    /\ UNCHANGED <<task, request_retries, countdowns>>
    /\ UNCHANGED <<riskVars, confVars, matchVars, linkVars, batchVars, fileVars,
                 scrapeVars>>

\* what process_matches_for_user comes back with for a user: a count of
\* alerts, or 0 after it has logged a failure of its own (lines 420-422 of
\* credential_matcher.py; it lets no Exception out, so the except of line
\* 71 has nothing to catch)
PassResults ==
    {[alerts_created |-> 1, failed |-> FALSE],
     [alerts_created |-> 0, failed |-> FALSE],
     [alerts_created |-> 0, failed |-> TRUE]}

\* lines 66-73: one turn of the loop over the users
MatchNextUser ==
    /\ task_pc = "loop"
    /\ users_left # <<>>
    /\ \E r \in PassResults :
          user_log' = Append(user_log,
                             [user |-> Head(users_left),
                              alerts_created |-> r.alerts_created,
                              failed |-> r.failed])
    /\ users_left' = Tail(users_left)
    /\ UNCHANGED <<task, task_pc, request_retries, countdowns>>
    /\ UNCHANGED <<riskVars, confVars, matchVars, linkVars, batchVars, fileVars,
                 scrapeVars>>

\* lines 75-76: the loop is over and the task returns
UserLoopEnds ==
    /\ task_pc = "loop"
    /\ users_left = <<>>
    /\ task_pc' = "succeeded"
    /\ UNCHANGED <<task, request_retries, countdowns, users_left, user_log>>
    /\ UNCHANGED <<riskVars, confVars, matchVars, linkVars, batchVars, fileVars,
                 scrapeVars>>

(***************************************************************************)
(* scripts/tasks/celery_tasks.py: cleanup_old_data, and the views that     *)
(* resolve alerts and set the status of a leak                             *)
(***************************************************************************)
\* days_old: the default of the parameter; the schedule passes nothing
days_old == 30

\* timedelta(days=d), in ticks
Days(d) == d * 24 * HourTicks

\* api/models.py, CredentialLeak.STATUS_CHOICES
STATUS_CHOICES == {"new", "investigating", "confirmed", "false_positive", "resolved"}

\* the rows with the fields that resolving and cleaning up read and write;
\* resolved_at, which may be NULL, is the sequence of at most one time
StoredLeak(id, user_id, t) ==
    [id |-> id, user |-> user_id, status |-> "new", discovered_at |-> t]

StoredAlert(id, user_id, leak_id, t) ==
    [id |-> id, user |-> user_id, credential_leak |-> leak_id,
     is_read |-> FALSE, is_resolved |-> FALSE, resolved_at |-> None,
     created_at |-> t]

\* the rows of table whose id is in ids, with field f set to v
UpdateRows(table, ids, f, v) ==
    [i \in 1..Len(table) |->
        IF table[i].id \in ids
        THEN [g \in DOMAIN table[i] |-> IF g = f THEN v ELSE table[i][g]]
        ELSE table[i]]

\* socradar/views.py, resolve_alert: the alert is resolved now and its
\* leak takes the posted resolution as its status
resolve_alert(alert_id, resolution) ==
    /\ \E i \in 1..Len(alerts) : alerts[i].id = alert_id
    /\ LET alert == CHOOSE a \in Range(alerts) : a.id = alert_id
       IN /\ alerts' = UpdateRows(UpdateRows(alerts, {alert_id}, "is_resolved", TRUE),
                                  {alert_id}, "resolved_at", <<now>>)
          /\ leaks' = IF alert.credential_leak # 0
                      THEN UpdateRows(leaks, {alert.credential_leak}, "status", resolution)
                      ELSE leaks
    /\ UNCHANGED <<monitored, corpus, now, queue, pool_size, workerVars>>
    /\ UNCHANGED <<riskVars, confVars, linkVars, jobVars>>

\* socradar/views.py, update_alert_status: 'read' and 'resolved' set their
\* flag and nothing else, any other status saves the alert as it is
update_alert_status(alert_id, new_status) ==
    /\ \E i \in 1..Len(alerts) : alerts[i].id = alert_id
    /\ alerts' = IF new_status = "read"
                 THEN UpdateRows(alerts, {alert_id}, "is_read", TRUE)
                 ELSE IF new_status = "resolved"
                 THEN UpdateRows(alerts, {alert_id}, "is_resolved", TRUE)
                 ELSE alerts
    /\ UNCHANGED <<monitored, leaks, corpus, now, queue, pool_size, workerVars>>
    /\ UNCHANGED <<riskVars, confVars, linkVars, jobVars>>

\* api/views.py, CredentialLeakDetailView with PATCH: the owner sets the
\* status of a leak to one of the choices
CredentialLeakDetailView_patch(leak_id, status) ==
    /\ \E i \in 1..Len(leaks) : leaks[i].id = leak_id
    /\ status \in STATUS_CHOICES
    /\ leaks' = UpdateRows(leaks, {leak_id}, "status", status)
    /\ UNCHANGED <<monitored, alerts, corpus, now, queue, pool_size, workerVars>>
    /\ UNCHANGED <<riskVars, confVars, linkVars, jobVars>>

\* line 126
cutoff_date == now - Days(days_old)

\* lines 129-132: the alerts of the first query
old_alerts ==
    {a \in Range(alerts) :
        a.is_resolved /\ a.resolved_at # None /\ a.resolved_at[1] < cutoff_date}

\* lines 137-140: the leaks of the second query
old_leaks ==
    {l \in Range(leaks) : l.status = "false_positive" /\ l.discovered_at < cutoff_date}

\* the rows of table but those in rows
Delete(table, rows) == SelectSeq(table, LAMBDA r : r \notin rows)

\* api/models.py:135, on_delete=CASCADE: the alerts that go with leaks
Cascade(table, gone) ==
    {a \in Range(table) : \E l \in gone : a.credential_leak = l.id}

\* QuerySet.delete() on leaks: the alerts that are left
DeleteLeaks(table, gone) == Delete(table, Cascade(table, gone))

\* lines 119-145: the run that finishes; both deletions are made
cleanup_old_data ==
    /\ alerts' = DeleteLeaks(Delete(alerts, old_alerts), old_leaks)
    /\ leaks' = Delete(leaks, old_leaks)
    /\ UNCHANGED <<monitored, corpus, now, queue, pool_size, workerVars>>
    /\ UNCHANGED <<riskVars, confVars, linkVars, jobVars>>

\* half a month passes
Period == Days(15)

TimePasses ==
    /\ now + Period <= MaxPeriods * Period
    /\ now' = now + Period
    /\ UNCHANGED <<monitored, leaks, alerts, corpus, queue, pool_size, workerVars>>
    /\ UNCHANGED <<riskVars, confVars, linkVars, jobVars>>

(***************************************************************************)
(* socradar/tasks.py: process_file_task                                    *)
(***************************************************************************)
Invocations == 1..MaxInvocations

\* the (message, s3_uri) pairs that invocations are queued for; the
\* message of the second may be gone from the table
FileKeys == {1, 2}

\* no invocation of process_file_task is queued
FilesIdle ==
    /\ processed_files = {}
    /\ file_key = <<>>
    /\ file_pc = <<>>
    /\ file_created = <<>>
    /\ file_result = <<>>
    /\ file_returned = <<>>
    /\ process_file_calls = <<>>

\* the row of ProcessedFile for key, as a set of at most one row
FileRows(table, key) == {r \in table : r.key = key}

\* the table with the row of key saved with processing_status status
SaveStatus(table, key, status) ==
    {IF r.key = key THEN [r EXCEPT !.processing_status = status] ELSE r : r \in table}

\* get_or_create on a table without the unique constraint, whose lookup
\* saw no row: a row is made whatever the table holds
get_or_create_unconstrained(table, key) ==
    [table |-> table \union {[key |-> key, processing_status |-> "PENDING"]},
     created |-> TRUE]

\* lines 247-257 with models.py 398-399, unique_together: the row of key
\* is made with PENDING if there is none, and created tells which
get_or_create(table, key) ==
    IF FileRows(table, key) = {}
    THEN [table |-> table \union {[key |-> key, processing_status |-> "PENDING"]},
          created |-> TRUE]
    ELSE [table |-> table, created |-> FALSE]

\* the invocation i goes on to pc
Goto(i, to) == file_pc' = [file_pc EXCEPT ![i] = to]

\* the invocation i returns value
ReturnFile(i, value) ==
    /\ Goto(i, "returned")
    /\ file_returned' = [file_returned EXCEPT ![i] = value]

\* lines 241-244: the message is read; without it the task returns
GetMessage(i, messages) ==
    /\ i \in DOMAIN file_pc
    /\ file_pc[i] = "queued"
    /\ IF file_key[i] \in messages
       THEN Goto(i, "get_or_create") /\ UNCHANGED file_returned
       ELSE ReturnFile(i, "Message not found")
    /\ UNCHANGED <<processed_files, file_key, file_created, file_result,
                   process_file_calls>>
    /\ UNCHANGED <<riskVars, confVars, matchVars, linkVars, taskVars, batchVars,
                 scrapeVars>>

\* lines 247-261: the record is created or found; an invocation that
\* found it returns
GetOrCreate(i) ==
    /\ i \in DOMAIN file_pc
    /\ file_pc[i] = "get_or_create"
    /\ LET got == get_or_create(processed_files, file_key[i])
       IN /\ processed_files' = got.table
          /\ file_created' = [file_created EXCEPT ![i] = got.created]
          /\ IF got.created
             THEN Goto(i, "created") /\ UNCHANGED file_returned
             ELSE ReturnFile(i, "File already processed")
    /\ UNCHANGED <<file_key, file_result, process_file_calls>>
    /\ UNCHANGED <<riskVars, confVars, matchVars, linkVars, taskVars, batchVars,
                 scrapeVars>>

\* lines 264-265
SaveProcessing(i) ==
    /\ i \in DOMAIN file_pc
    /\ file_pc[i] = "created"
    /\ processed_files' = SaveStatus(processed_files, file_key[i], "PROCESSING")
    /\ Goto(i, "processing")
    /\ UNCHANGED <<file_key, file_created, file_result, file_returned,
                   process_file_calls>>
    /\ UNCHANGED <<riskVars, confVars, matchVars, linkVars, taskVars, batchVars,
                 scrapeVars>>

\* lines 279-280: FileProcessor() and its process_file, which turns its
\* own errors into a result without success
ProcessFileCall(i) ==
    /\ i \in DOMAIN file_pc
    /\ file_pc[i] = "processing"
    /\ process_file_calls' = Append(process_file_calls, [by |-> i, key |-> file_key[i]])
    /\ \E success \in BOOLEAN : file_result' = [file_result EXCEPT ![i] = success]
    /\ Goto(i, "processed")
    /\ UNCHANGED <<processed_files, file_key, file_created, file_returned>>
    /\ UNCHANGED <<riskVars, confVars, matchVars, linkVars, taskVars, batchVars,
                 scrapeVars>>

\* lines 282-287: the result without success is saved as FAILED
SaveFailed(i) ==
    /\ i \in DOMAIN file_pc
    /\ file_pc[i] = "processed"
    /\ ~file_result[i]
    /\ processed_files' = SaveStatus(processed_files, file_key[i], "FAILED")
    /\ ReturnFile(i, "FAILED")
    /\ UNCHANGED <<file_key, file_created, file_result, process_file_calls>>
    /\ UNCHANGED <<riskVars, confVars, matchVars, linkVars, taskVars, batchVars,
                 scrapeVars>>

\* lines 301-325: the result is saved as COMPLETED
SaveCompleted(i) ==
    /\ i \in DOMAIN file_pc
    /\ file_pc[i] = "processed"
    /\ file_result[i]
    /\ processed_files' = SaveStatus(processed_files, file_key[i], "COMPLETED")
    /\ Goto(i, "completed")
    /\ UNCHANGED <<file_key, file_created, file_result, file_returned,
                   process_file_calls>>
    /\ UNCHANGED <<riskVars, confVars, matchVars, linkVars, taskVars, batchVars,
                 scrapeVars>>

\* lines 327-409: the credentials are stored and indexed, with their errors
\* logged, and the task returns
ReturnSuccess(i) ==
    /\ i \in DOMAIN file_pc
    /\ file_pc[i] = "completed"
    /\ ReturnFile(i, "SUCCESS")
    /\ UNCHANGED <<processed_files, file_key, file_created, file_result,
                   process_file_calls>>
    /\ UNCHANGED <<riskVars, confVars, matchVars, linkVars, taskVars, batchVars,
                 scrapeVars>>

\* lines 411-423: a statement of the invocation that created the record
\* raises (FileProcessor() before the processing, a field of the result
\* that the record cannot take, update_state after it); the record is read
\* again, saved as FAILED, and the task returns
ExceptionPath(i) ==
    /\ i \in DOMAIN file_pc
    /\ file_pc[i] \in {"processing", "processed", "completed"}
    /\ file_pc[i] = "processed" => file_result[i]
    /\ processed_files' = SaveStatus(processed_files, file_key[i], "FAILED")
    /\ ReturnFile(i, "FAILED")
    /\ UNCHANGED <<file_key, file_created, file_result, process_file_calls>>
    /\ UNCHANGED <<riskVars, confVars, matchVars, linkVars, taskVars, batchVars,
                 scrapeVars>>

(***************************************************************************)
(* socradar/views.py: scrape_telegram_channel; socradar/tasks.py:          *)
(* scrape_channel_task; socradar/scraper.py: scrape_channel_async          *)
(***************************************************************************)
Requests == 1..MaxRequests

\* models.py 115-127: the row of a channel that was never scraped; 0 is
\* the NULL of scraping_task_id, the id of the task of request r is r
NewChannel ==
    [scraping_status |-> "IDLE", scraping_task_id |-> 0, last_scraped_msg_id |-> 0]

\* nothing asks for a scrape
ScrapeIdle ==
    /\ channel = NewChannel
    /\ stored = {}
    /\ posted = 0
    /\ view_pc = <<>>
    /\ view_channel = <<>>
    /\ scrape_pc = <<>>
    /\ sync = <<>>
    /\ offset_id = <<>>
    /\ task_channel = <<>>
    /\ scraper_channel = <<>>
    /\ cursor = <<>>
    /\ last_message_id = <<>>
    /\ result = <<>>

\* the function f with v at r
Put(f, r, v) == [f EXCEPT ![r] = v]

\* views.py 1280-1288: the view reads the channel, which is PUBLIC_OK, and
\* takes last_scraped_msg_id from it
ViewGet(r) ==
    /\ r \in DOMAIN view_pc
    /\ view_pc[r] = "request"
    /\ view_channel' = Put(view_channel, r, channel)
    /\ view_pc' = Put(view_pc, r, "queueing")
    /\ UNCHANGED <<channel, stored, posted, scrape_pc, sync, offset_id,
                   task_channel, scraper_channel, cursor, last_message_id, result>>
    /\ UNCHANGED <<riskVars, confVars, matchVars, linkVars, taskVars, batchVars,
                   fileVars>>

\* views.py 1300-1306: delay queues the task with the offset of the copy
ViewDelay(r) ==
    /\ r \in DOMAIN view_pc
    /\ view_pc[r] = "queueing"
    /\ offset_id' = Put(offset_id, r, view_channel[r].last_scraped_msg_id)
    /\ scrape_pc' = Put(scrape_pc, r, "queued")
    /\ view_pc' = Put(view_pc, r, "queued")
    /\ UNCHANGED <<channel, stored, posted, view_channel, sync, task_channel,
                   scraper_channel, cursor, last_message_id, result>>
    /\ UNCHANGED <<riskVars, confVars, matchVars, linkVars, taskVars, batchVars,
                   fileVars>>

\* views.py 1315-1322: delay raises, and the view runs the scraper itself,
\* by the username and without the id of the channel
ViewDelayFails(r) ==
    /\ r \in DOMAIN view_pc
    /\ view_pc[r] = "queueing"
    /\ offset_id' = Put(offset_id, r, view_channel[r].last_scraped_msg_id)
    /\ sync' = Put(sync, r, TRUE)
    /\ scrape_pc' = Put(scrape_pc, r, "connecting")
    /\ view_pc' = Put(view_pc, r, "scraping")
    /\ UNCHANGED <<channel, stored, posted, view_channel, task_channel,
                   scraper_channel, cursor, last_message_id, result>>
    /\ UNCHANGED <<riskVars, confVars, matchVars, linkVars, taskVars, batchVars,
                   fileVars>>

\* views.py 1308-1311: the view saves its copy of the row with the id of
\* the task and PENDING
ViewSave(r) ==
    /\ r \in DOMAIN view_pc
    /\ view_pc[r] = "queued"
    /\ channel' = [view_channel[r] EXCEPT !.scraping_task_id = r,
                                          !.scraping_status = "PENDING"]
    /\ view_pc' = Put(view_pc, r, "done")
    /\ UNCHANGED <<stored, posted, view_channel, scrape_pc, sync, offset_id,
                   task_channel, scraper_channel, cursor, last_message_id, result>>
    /\ UNCHANGED <<riskVars, confVars, matchVars, linkVars, taskVars, batchVars,
                   fileVars>>

\* views.py 1324-1327: the scraper of the view is back
ViewScraped(r) ==
    /\ r \in DOMAIN view_pc
    /\ view_pc[r] = "scraping"
    /\ scrape_pc[r] = "finished"
    /\ view_pc' = Put(view_pc, r, "done")
    /\ scrape_pc' = Put(scrape_pc, r, "returned")
    /\ UNCHANGED <<channel, stored, posted, view_channel, sync, offset_id,
                   task_channel, scraper_channel, cursor, last_message_id, result>>
    /\ UNCHANGED <<riskVars, confVars, matchVars, linkVars, taskVars, batchVars,
                   fileVars>>

\* tasks.py 32-36: a worker takes the task, which reads the channel
TaskGet(r) ==
    /\ r \in DOMAIN scrape_pc
    /\ scrape_pc[r] = "queued"
    /\ task_channel' = Put(task_channel, r, channel)
    /\ scrape_pc' = Put(scrape_pc, r, "got")
    /\ UNCHANGED <<channel, stored, posted, view_pc, view_channel, sync,
                   offset_id, scraper_channel, cursor, last_message_id, result>>
    /\ UNCHANGED <<riskVars, confVars, matchVars, linkVars, taskVars, batchVars,
                   fileVars>>

\* tasks.py 39-41: the task saves its copy of the row with RUNNING
TaskSaveRunning(r) ==
    /\ r \in DOMAIN scrape_pc
    /\ scrape_pc[r] = "got"
    /\ task_channel' = Put(task_channel, r,
                           [task_channel[r] EXCEPT !.scraping_status = "RUNNING"])
    /\ channel' = task_channel'[r]
    /\ scrape_pc' = Put(scrape_pc, r, "connecting")
    /\ UNCHANGED <<stored, posted, view_pc, view_channel, sync, offset_id,
                   scraper_channel, cursor, last_message_id, result>>
    /\ UNCHANGED <<riskVars, confVars, matchVars, linkVars, taskVars, batchVars,
                   fileVars>>

\* tasks.py 177-196: a statement of the task raises (TelegramScraper(),
\* update_state); the channel is read again and saved with FAILED
TaskRaises(r) ==
    /\ r \in DOMAIN scrape_pc
    /\ scrape_pc[r] \in {"connecting", "finished"}
    /\ ~sync[r]
    /\ channel' = [channel EXCEPT !.scraping_status = "FAILED"]
    /\ scrape_pc' = Put(scrape_pc, r, "returned")
    /\ UNCHANGED <<stored, posted, view_pc, view_channel, sync, offset_id,
                   task_channel, scraper_channel, cursor, last_message_id, result>>
    /\ UNCHANGED <<riskVars, confVars, matchVars, linkVars, taskVars, batchVars,
                   fileVars>>

\* scraper.py 82-111: the scraper connects and reads the channel again;
\* last_message_id starts at the offset
ScraperStarts(r) ==
    /\ r \in DOMAIN scrape_pc
    /\ scrape_pc[r] = "connecting"
    /\ scraper_channel' = Put(scraper_channel, r, channel)
    /\ cursor' = Put(cursor, r, offset_id[r])
    /\ last_message_id' = Put(last_message_id, r, offset_id[r])
    /\ scrape_pc' = Put(scrape_pc, r, "iterating")
    /\ UNCHANGED <<channel, stored, posted, view_pc, view_channel, sync,
                   offset_id, task_channel, result>>
    /\ UNCHANGED <<riskVars, confVars, matchVars, linkVars, taskVars, batchVars,
                   fileVars>>

\* scraper.py 84-91 and 189-191: the connection, the lookup of the entity
\* or the iteration fails and the scraper returns without success
ScraperFails(r) ==
    /\ r \in DOMAIN scrape_pc
    /\ scrape_pc[r] \in {"connecting", "iterating"}
    /\ result' = Put(result, r, [success |-> FALSE, last_message_id |-> 0])
    /\ scrape_pc' = Put(scrape_pc, r, "finished")
    /\ UNCHANGED <<channel, stored, posted, view_pc, view_channel, sync,
                   offset_id, task_channel, scraper_channel, cursor, last_message_id>>
    /\ UNCHANGED <<riskVars, confVars, matchVars, linkVars, taskVars, batchVars,
                   fileVars>>

\* scraper.py 125-172: iter_messages gives the next message after the
\* cursor; its row is created and last_message_id follows, or the row is
\* there already (models.py 181, unique_together), the error is logged
\* and the loop goes on
ScrapeMessage(r) ==
    /\ r \in DOMAIN scrape_pc
    /\ scrape_pc[r] = "iterating"
    /\ cursor[r] < posted
    /\ LET message == cursor[r] + 1
       IN /\ cursor' = Put(cursor, r, message)
          /\ IF message \in stored
             THEN UNCHANGED <<stored, last_message_id>>
             ELSE /\ stored' = stored \union {message}
                  /\ last_message_id' = Put(last_message_id, r, message)
    /\ UNCHANGED <<channel, posted, view_pc, view_channel, scrape_pc, sync,
                   offset_id, task_channel, scraper_channel, result>>
    /\ UNCHANGED <<riskVars, confVars, matchVars, linkVars, taskVars, batchVars,
                   fileVars>>

\* scraper.py 174-187: the iteration is over; the scraper saves its copy
\* of the row with the new link_count and returns last_message_id
ScraperReturns(r) ==
    /\ r \in DOMAIN scrape_pc
    /\ scrape_pc[r] = "iterating"
    /\ cursor[r] >= posted
    /\ channel' = scraper_channel[r]
    /\ result' = Put(result, r, [success |-> TRUE,
                                 last_message_id |-> last_message_id[r]])
    /\ scrape_pc' = Put(scrape_pc, r, "finished")
    /\ UNCHANGED <<stored, posted, view_pc, view_channel, sync, offset_id,
                   task_channel, scraper_channel, cursor, last_message_id>>
    /\ UNCHANGED <<riskVars, confVars, matchVars, linkVars, taskVars, batchVars,
                   fileVars>>

\* tasks.py 136-175: the task saves its copy of the row, with COMPLETED
\* and the last message id of the result, or with FAILED
TaskSaveResult(r) ==
    /\ r \in DOMAIN scrape_pc
    /\ scrape_pc[r] = "finished"
    /\ ~sync[r]
    /\ channel' = IF result[r].success
                  THEN [task_channel[r] EXCEPT
                           !.scraping_status = "COMPLETED",
                           !.last_scraped_msg_id = result[r].last_message_id]
                  ELSE [task_channel[r] EXCEPT !.scraping_status = "FAILED"]
    /\ scrape_pc' = Put(scrape_pc, r, "returned")
    /\ UNCHANGED <<stored, posted, view_pc, view_channel, sync, offset_id,
                   task_channel, scraper_channel, cursor, last_message_id, result>>
    /\ UNCHANGED <<riskVars, confVars, matchVars, linkVars, taskVars, batchVars,
                   fileVars>>

\* a message is posted in the Telegram channel
NewPost ==
    /\ posted < MaxPosted
    /\ posted' = posted + 1
    /\ UNCHANGED <<channel, stored, view_pc, view_channel, scrape_pc, sync,
                   offset_id, task_channel, scraper_channel, cursor,
                   last_message_id, result>>
    /\ UNCHANGED <<riskVars, confVars, matchVars, linkVars, taskVars, batchVars,
                   fileVars>>

(***************************************************************************)
(* scripts/telegram/telegram_link_validator.py: validate_links_batch       *)
(***************************************************************************)
\* max_concurrent: the default of the parameter, which validate_telegram_
\* links, the one caller, leaves as it is
max_concurrent == 5

\* no batch is being validated
BatchIdle ==
    /\ batch_pc = "idle"
    /\ link_task = <<>>
    /\ semaphore = 0
    /\ valid_results = <<>>
    /\ logged = {}

JobsIdle == TasksIdle /\ BatchIdle /\ FilesIdle /\ ScrapeIdle

\* lines 142 and 161-162: the semaphore is created, one task per link is
\* made and gather waits for them; validate_telegram_links has started the
\* client, so the guard of line 137 lets the call through
StartBatch(n) ==
    /\ batch_pc = "called"
    /\ n = Len(link_task)
    /\ batch_pc' = "gather"
    /\ link_task' = [i \in 1..n |-> "created"]
    /\ semaphore' = max_concurrent
    /\ UNCHANGED <<valid_results, logged>>
    /\ UNCHANGED <<riskVars, confVars, matchVars, linkVars, taskVars, fileVars,
                 scrapeVars>>

\* the task of link i enters the block without waiting for the semaphore
EnterSemaphore_NoWait(i) ==
    /\ batch_pc = "gather"
    /\ i \in 1..Len(link_task)
    /\ link_task[i] = "created"
    /\ link_task' = [link_task EXCEPT ![i] = "in_flight"]
    /\ semaphore' = semaphore - 1
    /\ UNCHANGED <<batch_pc, valid_results, logged>>
    /\ UNCHANGED <<riskVars, confVars, matchVars, linkVars, taskVars, fileVars,
                 scrapeVars>>

\* line 145, async with semaphore: the task of link i acquires the
\* semaphore, which it can while the value is above 0, and starts
\* validate_single_link (line 147)
EnterSemaphore(i) ==
    /\ batch_pc = "gather"
    /\ i \in 1..Len(link_task)
    /\ link_task[i] = "created"
    /\ semaphore > 0
    /\ link_task' = [link_task EXCEPT ![i] = "in_flight"]
    /\ semaphore' = semaphore - 1
    /\ UNCHANGED <<batch_pc, valid_results, logged>>
    /\ UNCHANGED <<riskVars, confVars, matchVars, linkVars, taskVars, fileVars,
                 scrapeVars>>

\* lines 147-159: validate_single_link comes back (it turns the errors of
\* the lookup into results) and the task returns the merged result, or
\* the task raises; the block is left and the semaphore released
LeaveSemaphore(i) ==
    /\ batch_pc = "gather"
    /\ i \in 1..Len(link_task)
    /\ link_task[i] = "in_flight"
    /\ \E outcome \in {"result", "raised"} :
          link_task' = [link_task EXCEPT ![i] = outcome]
    /\ semaphore' = semaphore + 1
    /\ UNCHANGED <<batch_pc, valid_results, logged>>
    /\ UNCHANGED <<riskVars, confVars, matchVars, linkVars, taskVars, fileVars,
                 scrapeVars>>

\* lines 162-171: gather has every task's result or exception, in the
\* order of the links; exceptions are logged, the results returned
GatherReturns ==
    /\ batch_pc = "gather"
    /\ \A i \in 1..Len(link_task) : link_task[i] \in {"result", "raised"}
    /\ batch_pc' = "returned"
    /\ valid_results' =
          Ascending({i \in 1..Len(link_task) : link_task[i] = "result"})
    /\ logged' = {i \in 1..Len(link_task) : link_task[i] = "raised"}
    /\ UNCHANGED <<link_task, semaphore>>
    /\ UNCHANGED <<riskVars, confVars, matchVars, linkVars, taskVars, fileVars,
                 scrapeVars>>

(***************************************************************************)
(* api/views.py: MonitoredCredentialDetailView                             *)
(* (generics.RetrieveUpdateDestroyAPIView on the requester's own rows)     *)
(***************************************************************************)

\* PATCH credentials/<pk>/ with is_active: UpdateModelMixin.partial_update
\* saves the field on the row; nothing else is touched
PartialUpdate(i, active) ==
    /\ i \in 1..Len(monitored)
    /\ monitored[i].is_active # active
    /\ monitored' = [monitored EXCEPT ![i].is_active = active]
    /\ UNCHANGED <<leaks, alerts, corpus, now, queue, pool_size, workerVars,
                   riskVars, confVars, linkVars, jobVars>>

\* the CredentialLeak rows that go with MonitoredCredential pk
\* (monitored_credential is a ForeignKey with on_delete=CASCADE)
CascadeLeaks(pk) ==
    {leaks[k].id : k \in {j \in 1..Len(leaks) : leaks[j].monitored_credential = pk}}

\* DELETE credentials/<pk>/: DestroyModelMixin.destroy calls
\* instance.delete(); the row goes, and with it the CredentialLeak rows that
\* refer to it and the Alert rows that refer to those (both on_delete=CASCADE)
Destroy(i) ==
    /\ i \in 1..Len(monitored)
    /\ LET pk == monitored[i].id
           gone == CascadeLeaks(pk)
       IN /\ monitored' = SelectSeq(monitored, LAMBDA c : c.id # pk)
          /\ leaks' = SelectSeq(leaks, LAMBDA l : l.id \notin gone)
          /\ alerts' = SelectSeq(alerts, LAMBDA a : a.credential_leak \notin gone)
    /\ UNCHANGED <<corpus, now, queue, pool_size, workerVars, riskVars, confVars, linkVars, jobVars>>

(***************************************************************************)
(* Specifications.                                                         *)
(***************************************************************************)

\* a row of MonitoredCredential
Credential(id, user_id, credential_type, value, is_active) ==
    [id |-> id, user |-> user_id, credential_type |-> credential_type,
     value |-> value, is_active |-> is_active]

\* a document of index telegram-extracted-data
Document(message_id, text, keys, message_date) ==
    [message_id |-> message_id, message_text |-> text,
     extracted_data |-> [k \in keys |-> <<"v">>], message_date |-> message_date]

\* hits: two documents of equal score and different dates, one of the same
\* score without a date, and a higher scoring one with extracted indicators
HitA == [_score |-> 50, _source |-> Document(1, <<"x">>, {}, <<"0", "9">>)]
HitB == [_score |-> 50, _source |-> Document(2, <<"x">>, {}, <<"1", "0">>)]
HitC == [_score |-> 50,
         _source |-> [message_id |-> 3, message_text |-> <<"x">>,
                      extracted_data |-> <<>>]]
HitD == [_score |-> 70,
         _source |-> Document(4, <<"a", "@", "x", ".", "c", "o", "m">>,
                              {"email", "password"}, <<"0", "9">>)]

PasswordValue == <<"p", "w">>

\* watchlist values of every type: e-mail addresses with a domain, without
\* an '@' and with nothing after it, and a type without a strategy
ValuePool ==
    {<<"email", <<"A", "@", "x", ".", "c", "o", "m">>>>,
     <<"email", <<"a", "b">>>>,
     <<"email", <<"a", "@">>>>,
     <<"username", <<"B", "o", "b">>>>,
     <<"domain", <<"X", ".", "o", "r", "g">>>>,
     <<"phone", <<"+", "1", " ", "(", "5", ")", "5">>>>,
     <<"api_key", <<"K", "1", "2", "3", "4", "5", "6", "7", "8", "9">>>>,
     <<"api_key", <<"K", "1", "2">>>>,
     <<"password", PasswordValue>>,
     <<"ssn", <<"1">>>>}

\* no worker is in a pass
WorkersIdle ==
    /\ pc = [w \in Workers |-> "idle"]
    /\ user = [w \in Workers |-> 0]
    /\ cutoff_time = [w \in Workers |-> 0]
    /\ searches = [w \in Workers |-> <<>>]
    /\ matches = [w \in Workers |-> <<>>]
    /\ index = [w \in Workers |-> 0]
    /\ credential_leak = [w \in Workers |-> 0]
    /\ alerts_created = [w \in Workers |-> 0]
    /\ errors = [w \in Workers |-> 0]
    /\ returned = [w \in Workers |-> 0]

\* nothing is monitored and no task is queued
MatchIdle ==
    /\ monitored = <<>>
    /\ leaks = <<>>
    /\ alerts = <<>>
    /\ corpus = {}
    /\ now = 0
    /\ queue = 0
    /\ pool_size = 0
    /\ WorkersIdle

\* no file has been processed but one without any match
RiskIdle ==
    /\ content = NoMatches
    /\ extracted_data = ExtractStructuredData(NoMatches)
    /\ risk_score = CalculateRiskScore(ExtractStructuredData(NoMatches))

\* no hit is being scored
ConfIdle ==
    /\ hit = [_score |-> 0, _source |-> <<>>]
    /\ search_type = "email"
    /\ confidence = 0
    /\ conf_pc = "idle"

InitRisk ==
    /\ RiskIdle
    /\ LinkIdle
    /\ JobsIdle
    /\ ConfIdle
    /\ MatchIdle

NextRisk ==
    \/ ProcessFileWithMatch
    \/ ProcessFileWithPair
    \/ ProcessFileWithOddPair

SpecRisk == InitRisk /\ [][NextRisk]_vars

InitConf ==
    /\ hit \in {[_score |-> sc, _source |-> src] : sc \in ScorePool, src \in SourcePool}
    /\ search_type \in SearchTypes
    /\ confidence = 0
    /\ conf_pc = "hit"
    /\ RiskIdle
    /\ LinkIdle
    /\ JobsIdle
    /\ MatchIdle

NextConf == ScoreHit

SpecConf == InitConf /\ [][NextConf]_vars

\* The matching tasks: one or two workers, MaxTasks queued passes for the
\* owner of a watchlist of one password
Init ==
    /\ monitored = <<Credential(1, 1, "password", PasswordValue, TRUE)>>
    /\ leaks = <<>>
    /\ alerts = <<>>
    /\ corpus = {HitA, HitD}
    /\ now = 0
    /\ queue = MaxTasks
    /\ pool_size \in Workers
    /\ WorkersIdle
    /\ RiskIdle
    /\ LinkIdle
    /\ JobsIdle
    /\ ConfIdle

Next ==
    \/ \E w \in Workers : Start(w)
    \/ \E w \in Workers : CheckExisting(w)
    \/ \E w \in Workers : LookupFails(w)
    \/ \E w \in Workers : CreateLeak(w)
    \/ \E w \in Workers : CreateLeakFails(w)
    \/ \E w \in Workers : CreateAlert(w)
    \/ \E w \in Workers : CreateAlertFails(w)
    \/ \E w \in Workers : Finish(w)
    \/ Tick

Spec == Init /\ [][Next]_vars

\* find_matches_for_user called once, for a watchlist of one entry of any
\* type followed by a password entry that is the same owner's, another
\* owner's or inactive
InitFind ==
    /\ \E v \in ValuePool :
         monitored \in
           {<<Credential(1, 1, v[1], v[2], TRUE),
              Credential(2, 1, "password", PasswordValue, TRUE)>>,
            <<Credential(1, 1, v[1], v[2], TRUE),
              Credential(2, 2, "password", PasswordValue, TRUE)>>,
            <<Credential(1, 1, v[1], v[2], TRUE),
              Credential(2, 1, "password", PasswordValue, FALSE)>>}
    /\ leaks = <<>>
    /\ alerts = <<>>
    /\ corpus = {HitA, HitB, HitC, HitD}
    /\ now = 0
    /\ queue = 1
    /\ pool_size = 1
    /\ WorkersIdle
    /\ RiskIdle
    /\ LinkIdle
    /\ JobsIdle
    /\ ConfIdle

NextFind == \E w \in Workers : FindMatches(w)

SpecFind == InitFind /\ [][NextFind]_vars

\* create_alert_from_match reached from the loop of
\* process_matches_for_user with one match, for a credential of any type and
\* a hit of any score
InitEmit ==
    /\ \E v \in ValuePool, sc \in ScorePool :
         /\ v[1] \in SearchTypes
         /\ monitored = <<Credential(1, 1, v[1], v[2], TRUE)>>
         /\ matches = [w \in Workers |->
                         IF w = 1
                         THEN <<MakeMatch(Credential(1, 1, v[1], v[2], TRUE),
                                          [_score |-> sc, _source |-> HitA["_source"]],
                                          v[1])>>
                         ELSE <<>>]
    /\ leaks = <<>>
    /\ alerts = <<>>
    /\ corpus = {}
    /\ now = 0
    /\ queue = 0
    /\ pool_size = 1
    /\ pc = [w \in Workers |-> IF w = 1 THEN "loop" ELSE "idle"]
    /\ user = [w \in Workers |-> IF w = 1 THEN 1 ELSE 0]
    /\ cutoff_time = [w \in Workers |-> 0]
    /\ searches = [w \in Workers |-> <<>>]
    /\ index = [w \in Workers |-> IF w = 1 THEN 1 ELSE 0]
    /\ credential_leak = [w \in Workers |-> 0]
    /\ alerts_created = [w \in Workers |-> 0]
    /\ errors = [w \in Workers |-> 0]
    /\ returned = [w \in Workers |-> 0]
    /\ RiskIdle
    /\ LinkIdle
    /\ JobsIdle
    /\ ConfIdle

NextEmit ==
    \/ \E w \in Workers : CheckExisting(w)
    \/ \E w \in Workers : LookupFails(w)
    \/ \E w \in Workers : CreateLeak(w)
    \/ \E w \in Workers : CreateLeakFails(w)
    \/ \E w \in Workers : CreateAlert(w)
    \/ \E w \in Workers : CreateAlertFails(w)
    \/ \E w \in Workers : Finish(w)

SpecEmit == InitEmit /\ [][NextEmit]_vars

(***************************************************************************)
(* Claims on matching and alert emission.                                  *)
(***************************************************************************)

\* the dedup key of an alert: owner, monitored credential, leaked value
AlertKey(a) ==
    <<a.user, leaks[a.credential_leak].monitored_credential,
      leaks[a.credential_leak].leaked_value>>

\* the dedup key of a match handled in a pass for owner u
MatchKey(u, m) == <<u, m.credential.id, m.credential.value>>

\* no two alerts of one key were created within an hour of each other
NoTwoAlertsWithinAnHour ==
    \A i, j \in 1..Len(alerts) :
        (i < j /\ AlertKey(alerts[i]) = AlertKey(alerts[j]))
            => alerts[j].created_at - alerts[i].created_at > HourTicks

\* worker w is at the end of the loop of a pass
PassOver(w) == pc[w] = "loop" /\ index[w] > Len(matches[w])

\* C1: under any interleaving of the workers, at most one Alert exists for
\* one (owner, credential, leaked value) among the alerts created within any
\* one hour
C1_AtMostOneAlertPerWindow ==
    \A i, j \in 1..Len(alerts) :
        (i # j /\ AlertKey(alerts[i]) = AlertKey(alerts[j]))
            => \/ alerts[j].created_at - alerts[i].created_at > HourTicks
               \/ alerts[i].created_at - alerts[j].created_at > HourTicks

SpecifiedSeverity(conf, credential_type) ==
    CASE conf > 80 /\ credential_type \in {"password", "api_key"} -> "critical"
      [] conf > 80 /\ credential_type \notin {"password", "api_key"} -> "high"
      [] conf > 60 /\ conf <= 80 /\ credential_type \in {"password", "api_key"} -> "high"
      [] conf > 60 /\ conf <= 80 /\ credential_type \notin {"password", "api_key"} -> "medium"
      [] conf <= 60 -> "medium"

\* C7: the severity of every LeakRecord follows the table, and the priority
\* of every Alert is the severity of its LeakRecord
C7_SeverityTable ==
    /\ \A i \in 1..Len(leaks) :
          leaks[i].severity =
              SpecifiedSeverity(leaks[i].confidence_score, leaks[i].credential_type)
    /\ \A i \in 1..Len(alerts) :
          alerts[i].priority = leaks[alerts[i].credential_leak].severity

\* C7 witness: an Alert was stored for a password leak of confidence 0.8, the
\* upper end of the middle band
C7_Witness ==
    \E i \in 1..Len(alerts) :
        /\ leaks[alerts[i].credential_leak].confidence_score = 80
        /\ leaks[alerts[i].credential_leak].credential_type = "password"
        /\ alerts[i].priority = "high"

\* the candidates of one recorded search
CandidatesOf(e) ==
    IF e.outcome.ok
    THEN [k \in 1..Len(e.outcome.hits) |->
             MakeMatch(e.credential, e.outcome.hits[k], e.credential.credential_type)]
    ELSE <<>>

\* all candidates of the searches of worker w
AllCandidates(w) ==
    Flatten([i \in 1..Len(searches[w]) |-> CandidatesOf(searches[w][i])])

Occurrences(x, s) == Cardinality({i \in 1..Len(s) : s[i] = x})

SamePopulation(s, t) ==
    \A x \in Range(s) \cup Range(t) : Occurrences(x, s) = Occurrences(x, t)

\* m may stand before n in a list sorted by confidence descending and, among
\* equal confidences, by timestamp descending
MayPrecede(m, n) ==
    \/ m.confidence > n.confidence
    \/ /\ m.confidence = n.confidence
       /\ \/ m.timestamp = None
          \/ n.timestamp = None
          \/ ~StrLess(m.timestamp, n.timestamp)

\* C8: find_matches_for_user returns all candidates of all searches, sorted
\* by confidence descending and then timestamp descending, also when hits
\* lack a timestamp
C8_AllCandidatesSorted ==
    \A w \in Workers :
        pc[w] = "found" =>
            /\ SamePopulation(matches[w], AllCandidates(w))
            /\ \A i, j \in 1..Len(matches[w]) :
                  i < j => MayPrecede(matches[w][i], matches[w][j])

\* the positions in the searches of w that are for credential c
SearchesFor(w, c) == {i \in 1..Len(searches[w]) : searches[w][i].credential = c}

\* C9: when a search for one credential fails, no candidate of that
\* credential's later searches is returned, and the candidates of the other
\* credentials are all returned
C9_FailureAbortsCredential ==
    \A w \in Workers :
        pc[w] = "found" =>
            \A i \in 1..Len(searches[w]) :
                ~searches[w][i].outcome.ok =>
                    LET c == searches[w][i].credential IN
                    /\ \A j \in SearchesFor(w, c) :
                          j > i => \A m \in Range(CandidatesOf(searches[w][j])) :
                                      m \notin Range(matches[w])
                    /\ \A j \in 1..Len(searches[w]) :
                          searches[w][j].credential # c =>
                              Range(CandidatesOf(searches[w][j])) \subseteq Range(matches[w])

\* the queries recorded for credential c, in order
QueriesFor(w, c) ==
    LET es == SelectSeq(searches[w], LAMBDA e : e.credential = c)
    IN [i \in 1..Len(es) |-> es[i].query]

SameIgnoringCase(s, t) == Lower(s) = Lower(t)

\* the value has a domain part: some character follows its first '@'
HasDomainPart(v) ==
    \E i \in 1..Len(v) :
        /\ v[i] = "@"
        /\ \A j \in 1..(i - 1) : v[j] # "@"
        /\ i < Len(v)
        /\ v[i + 1] # "@"

\* the queries the specification lists for a credential, qs being the
\* queries issued for it
FollowsStrategy(c, qs) ==
    LET t == c.credential_type
        exact(q) == q.kind = "match" /\ SameIgnoringCase(q.message_text, c.value)
    IN CASE t = "email" ->
              /\ Len(qs) = (IF HasDomainPart(c.value) THEN 2 ELSE 1)
              /\ exact(qs[1])
              /\ Len(qs) = 2 =>
                    /\ qs[2].kind = "match"
                    /\ ~Contains(<<"@">>, qs[2].message_text)
                    /\ Contains(<<"@">> \o qs[2].message_text, Lower(c.value))
         [] t = "username" ->
              /\ Len(qs) = 2
              /\ exact(qs[1])
              /\ qs[2] = [qs[1] EXCEPT !.kind = "wildcard",
                                       !.message_text = <<"*">> \o @ \o <<"*">>]
         [] t = "domain" ->
              /\ Len(qs) = 2
              /\ exact(qs[1])
              /\ qs[2] = [qs[1] EXCEPT !.kind = "wildcard",
                                       !.message_text = <<"*", ".">> \o @]
         [] t = "phone" ->
              /\ Len(qs) = 2
              /\ exact(qs[1])
              /\ qs[2].kind = "match"
              /\ qs[2].message_text =
                    SelectSeq(c.value, LAMBDA ch : ch \in Digits \/ ch = "+")
         [] t = "api_key" ->
              /\ Len(qs) = 2
              /\ exact(qs[1])
              /\ qs[2].kind = "wildcard"
              /\ qs[2].message_text =
                    SubSeq(c.value, 1, IF Len(c.value) < 8 THEN Len(c.value) ELSE 8)
                    \o <<"*">>
         [] t = "password" ->
              /\ Len(qs) = 1
              /\ exact(qs[1])
         [] OTHER -> qs = <<>>

\* C10: for every active credential of the owner the matcher issues the
\* queries of the strategy of its type and no other, each with the lookback
\* cutoff; for any other credential it issues none
C10_QueriesPerType ==
    \A w \in Workers :
        pc[w] = "found" =>
            /\ \A i \in 1..Len(searches[w]) :
                  searches[w][i].query.gte = now - hours_back * HourTicks
            /\ \A k \in 1..Len(monitored) :
                  IF monitored[k].user = user[w] /\ monitored[k].is_active
                  THEN FollowsStrategy(monitored[k], QueriesFor(w, monitored[k]))
                  ELSE QueriesFor(w, monitored[k]) = <<>>

\* C10 witness: a pass has searched for an e-mail address with a domain part
\* with two queries and for a password with one
C10_Witness ==
    \E w \in Workers :
        /\ pc[w] = "found"
        /\ Len(searches[w]) = 3
        /\ searches[w][1].credential.credential_type = "password"
        /\ searches[w][2].credential.credential_type = "email"
        /\ searches[w][3].query.message_text = <<"x", ".", "c", "o", "m">>

(***************************************************************************)
(* The watchlist while passes run, and the credentials API.                *)
(***************************************************************************)

UsernameValue == <<"B", "o", "b">>

\* one worker and one pass over a watchlist of a username and a password of
\* owner 1, either of which the owner may switch off or on at any time
InitWatch ==
    /\ \E a1, a2 \in BOOLEAN :
         monitored = <<Credential(1, 1, "username", UsernameValue, a1),
                       Credential(2, 1, "password", PasswordValue, a2)>>
    /\ leaks = <<>>
    /\ alerts = <<>>
    /\ corpus = {HitA}
    /\ now = 0
    /\ queue = 1
    /\ pool_size = 1
    /\ WorkersIdle
    /\ RiskIdle
    /\ LinkIdle
    /\ JobsIdle
    /\ ConfIdle

NextWatch ==
    \/ \E i \in 1..2, active \in BOOLEAN : PartialUpdate(i, active)
    \/ \E w \in Workers : FindMatches(w)
    \/ \E w \in Workers : BeginLoop(w)
    \/ \E w \in Workers : CheckExisting(w)
    \/ \E w \in Workers : LookupFails(w)
    \/ \E w \in Workers : CreateLeak(w)
    \/ \E w \in Workers : CreateLeakFails(w)
    \/ \E w \in Workers : CreateAlert(w)
    \/ \E w \in Workers : CreateAlertFails(w)
    \/ \E w \in Workers : Finish(w)

SpecWatch == InitWatch /\ [][NextWatch]_vars

\* the entry of the watchlist with primary key pk is active
ActiveEntry(pk) ==
    \E i \in 1..Len(monitored) : monitored[i].id = pk /\ monitored[i].is_active

\* C11: a pass issues corpus queries and produces candidates only for the
\* entries that are active when it starts; the candidates of a pass stay
\* what they are until it ends, and every LeakRecord and every Alert stored
\* is for the candidate the pass is at
C11_InactiveNotMatched ==
    [][/\ \A w \in Workers :
            /\ (pc[w] = "idle" /\ pc'[w] = "found") =>
                  /\ \A k \in 1..Len(searches'[w]) :
                        ActiveEntry(searches'[w][k].credential.id)
                  /\ \A k \in 1..Len(matches'[w]) :
                        ActiveEntry(matches'[w][k].credential.id)
            /\ (pc[w] # "idle" /\ pc'[w] # "idle") => matches'[w] = matches[w]
       /\ leaks' # leaks =>
            \E w \in Workers :
               /\ pc[w] = "create_leak"
               /\ Len(leaks') = Len(leaks) + 1
               /\ SubSeq(leaks', 1, Len(leaks)) = leaks
               /\ leaks'[Len(leaks')].monitored_credential =
                      matches[w][index[w]].credential.id
       /\ alerts' # alerts =>
            \E w \in Workers :
               /\ pc[w] = "create_alert"
               /\ Len(alerts') = Len(alerts) + 1
               /\ SubSeq(alerts', 1, Len(alerts)) = alerts
               /\ leaks[alerts'[Len(alerts')].credential_leak].monitored_credential =
                      matches[w][index[w]].credential.id
      ]_vars

\* C11 witness: a pass for the owner of an entry that was switched off
\* before it started has queried the corpus and stored an Alert for the
\* other entry, and nothing for the inactive one
C11_Witness ==
    \E w \in Workers :
        /\ PassOver(w)
        /\ ~ActiveEntry(1)
        /\ searches[w] # <<>>
        /\ \A k \in 1..Len(searches[w]) : searches[w][k].credential.id = 2
        /\ Len(alerts) = 1
        /\ leaks[alerts[1].credential_leak].monitored_credential = 2

\* the store the API works on: two active entries of owner 1, and for each
\* of them no LeakRecord yet or one LeakRecord with its Alert
StoredMatch(c) == MakeMatch(c, HitA, c.credential_type)

InitApi ==
    /\ \E v \in ValuePool, found \in SUBSET {1, 2} :
         LET c1 == Credential(1, 1, v[1], v[2], TRUE)
             c2 == Credential(2, 1, "password", PasswordValue, TRUE)
             cs == <<c1, c2>>
             hit_ids == SelectSeq(<<1, 2>>, LAMBDA i : i \in found)
         IN /\ v[1] \in SearchTypes
            /\ v # <<"password", PasswordValue>>
            /\ monitored = cs
            /\ leaks = [k \in 1..Len(hit_ids) |->
                          NewLeak(k, 1, StoredMatch(cs[hit_ids[k]]), 0)]
            /\ alerts = [k \in 1..Len(hit_ids) |->
                           NewAlert(k, 1, StoredMatch(cs[hit_ids[k]]), k, 0)]
    /\ corpus = {}
    /\ now = 0
    /\ queue = 0
    /\ pool_size = 0
    /\ WorkersIdle
    /\ RiskIdle
    /\ LinkIdle
    /\ JobsIdle
    /\ ConfIdle

NextApi ==
    \/ \E i \in 1..2, active \in BOOLEAN : PartialUpdate(i, active)
    \/ \E i \in 1..2 : Destroy(i)

SpecApi == InitApi /\ [][NextApi]_vars

\* C19: no operation of the API removes an entry of the watchlist, and the
\* LeakRecords and Alerts that refer to an entry stay when the entry is taken
\* out of monitoring
C19_NeverHardDeleted ==
    [][/\ \A i \in 1..Len(monitored) :
            \E j \in 1..Len(monitored') : monitored'[j].id = monitored[i].id
       /\ \A i \in 1..Len(leaks) : \E j \in 1..Len(leaks') : leaks'[j] = leaks[i]
       /\ \A i \in 1..Len(alerts) : \E j \in 1..Len(alerts') : alerts'[j] = alerts[i]
      ]_vars

(***************************************************************************)
(* Claims on what a pass stores and returns.                               *)
(***************************************************************************)

\* the Alerts that refer to the LeakRecord with primary key pk
AlertsOf(pk) == {i \in 1..Len(alerts) : alerts[i].credential_leak = pk}

\* create_alert_from_match is between its two stores for LeakRecord pk
BeingStored(pk) ==
    \E w \in Workers : pc[w] = "create_alert" /\ credential_leak[w] = pk

\* C12: outside a call of create_alert_from_match, every LeakRecord has
\* exactly one Alert that refers to it
C12_LeakHasOneAlert ==
    \A i \in 1..Len(leaks) :
        ~BeingStored(leaks[i].id) => Cardinality(AlertsOf(leaks[i].id)) = 1

\* a pass of worker w ends with this step
PassEnds(w) == pc[w] # "idle" /\ pc'[w] = "idle"

\* C13: the counter of a pass grows by one exactly when the pass stores an
\* Alert, and what the pass returns is its counter, however the pass ends
C13_ReturnsAlertCount ==
    [][/\ \A w \in Workers : PassEnds(w) => returned'[w] = alerts_created[w]
       /\ \A w \in Workers :
            (pc[w] # "idle" /\ pc'[w] # "idle") =>
               alerts_created'[w] - alerts_created[w] =
                  (IF pc[w] = "create_alert" /\ pc'[w] = "loop"
                   THEN Len(alerts') - Len(alerts) ELSE 0)
      ]_vars

\* the candidates of the pass of worker w for the credential of candidate k
SameCredential(w, k) ==
    {j \in 1..Len(matches[w]) :
        matches[w][j].credential.id = matches[w][k].credential.id}

\* candidate k of the pass of worker w is the first of its credential and
\* no candidate of that credential has a higher confidence
BestCandidate(w, k) ==
    \A j \in SameCredential(w, k) :
        /\ j >= k
        /\ matches[w][j].confidence <= matches[w][k].confidence

\* with this step the dedup check lets the candidate the pass is at through
NotSkipped(w) == pc[w] = "loop" /\ pc'[w] = "create_leak"

\* with this step the pass stores the LeakRecord of the candidate it is at
StoresLeak(w) == pc[w] = "create_leak" /\ pc'[w] = "create_alert"

\* C20 as stated: only the highest-confidence candidate of a credential gets
\* past the dedup check of a pass, every later one is skipped, and the
\* LeakRecord stored has the highest confidence of the credential's
\* candidates
C20_BestCandidateOnly ==
    [][\A w \in Workers :
          /\ NotSkipped(w) => BestCandidate(w, index[w])
          /\ StoresLeak(w) =>
                /\ BestCandidate(w, index[w])
                /\ leaks'[Len(leaks')].confidence_score =
                       matches[w][index[w]].confidence
      ]_vars

\* every Alert of the key of candidate k of worker w is more than an hour old
KeyExpired(w, k) ==
    /\ \E i \in 1..Len(alerts) :
          AlertKey(alerts[i]) = MatchKey(user[w], matches[w][k])
    /\ \A i \in 1..Len(alerts) :
          AlertKey(alerts[i]) = MatchKey(user[w], matches[w][k])
              => alerts[i].created_at < now - HourTicks

\* C20 as amended: in a pass none of whose stores has failed, a candidate
\* gets past the dedup check only if it is the highest-confidence candidate
\* of its credential, or if the Alerts of its key are all more than an hour
\* old by then; a LeakRecord stored has the confidence of its candidate
C20_BestCandidateFirst ==
    [][\A w \in Workers :
          /\ (NotSkipped(w) /\ errors[w] = 0) =>
                (BestCandidate(w, index[w]) \/ KeyExpired(w, index[w]))
          /\ StoresLeak(w) =>
                leaks'[Len(leaks')].confidence_score =
                    matches[w][index[w]].confidence
      ]_vars

\* C20 witness: a pass with two candidates of different confidence for one
\* credential is over; it stored one Alert, from the candidate of the higher
\* confidence, and skipped the other
C20_Witness ==
    \E w \in Workers :
        /\ PassOver(w)
        /\ Len(matches[w]) = 2
        /\ matches[w][1].confidence > matches[w][2].confidence
        /\ errors[w] = 0
        /\ alerts_created[w] = 1
        /\ Len(alerts) = 1
        /\ leaks[alerts[1].credential_leak].confidence_score = matches[w][1].confidence



-----------------------------------------------------------------------------
\* socradar/utils.py: the links of Telegram messages, processed and retried

UrlA == <<"h", "t", "t", "p", ":", "/", "/", "b", "i", "t", ".", "l", "y", "/", "x">>

UrlB == <<"h", "t", "t", "p", "s", ":", "/", "/", "t", ".", "m", "e", "/", "c">>

\* tables of messages nothing has processed yet: a message whose text has
\* a link twice and another link, next to a message without links; and two
\* messages with the same link
MessageTables ==
    {<<Message(<<UrlA, UrlB, UrlA>>), Message(<<>>)>>,
     <<Message(<<UrlA>>), Message(<<UrlA>>)>>}

InitLink ==
    /\ telegram_messages \in MessageTables
    /\ telegram_links = <<>>
    /\ initial_probes = [k \in LinkKeys(telegram_messages) |-> 0]
    /\ probe_count = [k \in LinkKeys(telegram_messages) |-> 0]
    /\ link_call = NoCall
    /\ JobsIdle
    /\ RiskIdle
    /\ ConfIdle
    /\ MatchIdle

NextLink ==
    \/ \E m \in DOMAIN telegram_messages : process_telegram_message_links(m)
    \/ retry_failed_links

SpecLink == InitLink /\ [][NextLink]_vars

\* n times the character c
Repeat(c, n) == [i \in 1..n |-> c]

Scheme == <<"h", "t", "t", "p", ":", "/", "/">>

\* domains for the rules of calculate_risk_score: plain, a shortener, a run
\* of four digits and of three, phishing and scam, Telegram, an extension
\* inside the domain, 50 characters and 51, and brackets urlparse rejects
DomainPool ==
    {<<"a", ".", "c", "o", "m">>,
     <<"A", ".", "C", "O", "M">>,
     <<"b", "i", "t", ".", "l", "y">>,
     <<"x", "1", "2", "3", "4", ".", "b", "i", "t", ".", "l", "y">>,
     <<"x", "1", "2", "3", ".", "c", "o", "m">>,
     <<"p", "h", "i", "s", "h", "i", "n", "g", ".", "i", "o">>,
     <<"s", "c", "a", "m", "1", "2", "3", "4", ".", "t", "i", "n", "y", "u", "r", "l", ".", "c", "o", "m">>,
     <<"t", ".", "m", "e">>,
     <<"T", ".", "M", "E">>,
     <<"t", ".", "m", "e", ".", "o", "w", ".", "l", "y">>,
     <<"a", ".", "c", "m", "d", ".", "c", "o", "m">>,
     <<"[", "b", "a", "d">>,
     <<"t", ".", "m", "e", "[">>,
     Repeat("a", 46) \o <<".", "c", "o", "m">>,
     Repeat("a", 47) \o <<".", "c", "o", "m">>}

PathPool ==
    {<<>>,
     <<"/", "x", "y", "z">>,
     <<"/", "a", ".", "e", "x", "e">>,
     <<"/", "A", ".", "E", "X", "E">>,
     <<"/", "a", ".", "e", "x", "e", "?", "d", "=", "1">>,
     <<"/", "a", ".", "b", "a", "t", "/", "v", "i", "e", "w">>}

UrlPool == {Scheme \o d \o p : d \in DomainPool, p \in PathPool}

\* one message whose text holds one link of the pool
InitLinkRisk ==
    /\ \E url \in UrlPool : telegram_messages = <<Message(<<url>>)>>
    /\ telegram_links = <<>>
    /\ initial_probes = [k \in LinkKeys(telegram_messages) |-> 0]
    /\ probe_count = [k \in LinkKeys(telegram_messages) |-> 0]
    /\ link_call = NoCall
    /\ JobsIdle
    /\ RiskIdle
    /\ ConfIdle
    /\ MatchIdle

NextLinkRisk == process_telegram_message_links(1)

SpecLinkRisk == InitLinkRisk /\ [][NextLinkRisk]_vars

-----------------------------------------------------------------------------
\* Claims about the links of Telegram messages

\* the step is a call of op that changed something
CallOf(op) == link_call'.op = op /\ vars' # vars

\* the call of the step probed the link of row i
ProbedRow(i) ==
    \E j \in 1..Len(link_call'.probed) :
        /\ link_call'.probed[j].message = telegram_links[i].message
        /\ link_call'.probed[j].url = telegram_links[i].url

\* C14: the retry_count of a Link never decreases, whatever initial
\* validations and retry passes run, and a retry pass never probes a Link
\* whose retry_count has reached 3: it leaves the status and the
\* retry_count of such a Link as they are.
C14_RetryCapped ==
    [][\A i \in 1..Len(telegram_links) :
          /\ i <= Len(telegram_links')
          /\ telegram_links'[i].retry_count >= telegram_links[i].retry_count
          /\ (CallOf("retry") /\ telegram_links[i].retry_count >= 3)
                => /\ ~ProbedRow(i)
                   /\ telegram_links'[i].validation_status
                         = telegram_links[i].validation_status
                   /\ telegram_links'[i].retry_count
                         = telegram_links[i].retry_count]_vars

\* a retry pass has probed one Link and left alone another that is in error
\* with a retry_count of 3

C14_Witness ==
    /\ link_call.op = "retry"
    /\ Len(link_call.probed) = 1
    /\ \E i \in 1..Len(telegram_links) :
          /\ telegram_links[i].retry_count = 3
          /\ telegram_links[i].validation_status = "error"
          /\ \A j \in 1..Len(link_call.probed) :
                link_call.probed[j].url # telegram_links[i].url
                \/ link_call.probed[j].message # telegram_links[i].message

\* the status the row of (message, url) holds in a table of links
RecordedStatus(table, message, url) ==
    LET i == CHOOSE j \in 1..Len(table) :
                 table[j].message = message /\ table[j].url = url
    IN table[i].validation_status

\* the classes of probe outcomes with a stated status: 2xx, 3xx and 4xx
\* responses, a timeout, and the other exceptions
StatedStatus(outcome) ==
    IF outcome.kind = "response"
    THEN (IF 200 <= outcome.status_code /\ outcome.status_code < 300 THEN {"valid"}
          ELSE IF 300 <= outcome.status_code /\ outcome.status_code < 400 THEN {"redirect"}
          ELSE IF 400 <= outcome.status_code /\ outcome.status_code < 500 THEN {"invalid"}
          ELSE {"valid", "redirect", "invalid", "timeout", "error"})
    ELSE IF outcome.kind = "Timeout" THEN {"timeout"}
    ELSE {"error"}

\* C15: the status recorded on a Link after a probe is valid for every 2xx
\* response, redirect for a 3xx response, invalid for a 4xx response,
\* timeout when the probe times out and error for other exceptions, and it
\* always equals the classification the probe returned.
C15_RecordedIsClassification ==
    [][(CallOf("process") \/ CallOf("retry")) =>
          \A j \in 1..Len(link_call'.probed) :
             LET p == link_call'.probed[j]
                 recorded == RecordedStatus(telegram_links', p.message, p.url)
             IN /\ recorded \in StatedStatus(p.outcome)
                /\ recorded = p.status]_vars

\* s ends with sub
UrlEndsWith(sub, s) ==
    Len(sub) <= Len(s) /\ SubSeq(s, Len(s) - Len(sub) + 1, Len(s)) = sub

\* the score the rules give as they are stated: the increments of the rules
\* that fire, with the extension rule for a url that ends in the extension,
\* less 20 and not below 0 for a Telegram link, kept within 0..100
StatedRiskScore(url, is_telegram) ==
    LET domain == Lower(Netloc(url))
        fired ==
            (IF \E sh \in shorteners : Contains(sh, domain) THEN 30 ELSE 0)
            + (IF HasDigitRun4(domain) THEN 20 ELSE 0)
            + (IF Len(domain) > 50 THEN 15 ELSE 0)
            + (IF Contains(<<"p", "h", "i", "s", "h", "i", "n", "g">>, domain)
                  \/ Contains(<<"s", "c", "a", "m">>, domain) THEN 50 ELSE 0)
            + (IF \E ext \in extensions : UrlEndsWith(ext, Lower(url)) THEN 40 ELSE 0)
        reduced == IF is_telegram THEN Max(0, fired - 20) ELSE fired
    IN Min(100, Max(0, reduced))

\* C16: the risk score of a link is the sum of the increments of the rules
\* that fire (+30 shortener domain, +20 run of four or more digits in the
\* domain, +15 domain longer than 50, +50 'phishing' or 'scam' in the
\* domain, +40 URL ending in an executable-like extension), less 20 and not
\* below 0 for a Telegram link, then kept within 0..100, and is_suspicious
\* holds exactly when the score is above 50.
C16_RiskScoreRules ==
    \A i \in 1..Len(telegram_links) :
       /\ telegram_links[i].risk_score
             = StatedRiskScore(telegram_links[i].url, telegram_links[i].is_telegram_link)
       /\ telegram_links[i].is_suspicious = (telegram_links[i].risk_score > 50)

\* the rows of telegram_links for a (message, url) pair
RowsOf(k) ==
    {i \in 1..Len(telegram_links) :
        <<telegram_links[i].message, telegram_links[i].url>> = k}

\* C17: however often process_telegram_message_links is called on a
\* message, each distinct URL of the message is probed at most once and
\* there is at most one Link per (message, url); a URL already recorded for
\* the message is skipped without a probe and without a change of its Link.
C17_ProcessedOnce ==
    /\ [](\A k \in DOMAIN initial_probes :
             initial_probes[k] <= 1 /\ Cardinality(RowsOf(k)) <= 1)
    /\ [][CallOf("process") =>
             \A i \in 1..Len(telegram_links) :
                /\ i <= Len(telegram_links')
                /\ telegram_links'[i] = telegram_links[i]
                /\ ~ProbedRow(i)]_vars

\* a second call on the message with two links has skipped both: it
\* counted two links, probed none, and each has been probed once
C17_Witness ==
    /\ link_call.op = "process"
    /\ link_call.returned.total = 2
    /\ link_call.probed = <<>>
    /\ \A k \in DOMAIN initial_probes :
          k[1] = link_call.message =>
             initial_probes[k] = 1 /\ Cardinality(RowsOf(k)) = 1

\* the statuses of the Link records of message m
LinkStatuses(table, m) ==
    {table[i].validation_status : i \in {j \in 1..Len(table) : table[j].message = m}}

\* the validation status a message has by its Link records: valid when all
\* are valid, invalid when one is invalid or error, pending otherwise
AggregateStatus(table, m) ==
    IF LinkStatuses(table, m) = {"valid"} THEN "valid"
    ELSE IF LinkStatuses(table, m) \cap {"invalid", "error"} # {} THEN "invalid"
    ELSE "pending"

\* C18: after every call of process_telegram_message_links on a message
\* with at least one link, the validation_status of the message is valid
\* exactly when all its Link records are valid, invalid when one of them is
\* invalid or error, and pending otherwise, also after a call that skipped
\* URLs whose Link existed already.
C18_MessageStatusAggregates ==
    [][CallOf("process") =>
          LET m == link_call'.message IN
          extract_links_from_text(telegram_messages[m].text) # <<>> =>
             telegram_messages'[m].validation_status
                = AggregateStatus(telegram_links', m)]_vars

-----------------------------------------------------------------------------
\* Retry passes that keep running

\* retry passes keep being run (the command is run with --retry-failed
\* again and again): a pass that has a Link to retry is taken in the end
SpecLinkRetried == SpecLink /\ WF_vars(retry_failed_links)

\* the (message, url) of row i of telegram_links
KeyOf(i) == <<telegram_links[i].message, telegram_links[i].url>>

\* C25: a Link whose every probe fails is probed a bounded number of times:
\* the failure of the initial validation already counts in retry_count, so
\* it is probed three times in all (once by the initial validation, twice
\* by retry passes); then retry_count is 3 and every further retry pass
\* leaves it untouched, and repeated retry passes reach a state in which no
\* Link is eligible.
C25_FailingLinkProbedThrice ==
    /\ [](\A i \in 1..Len(telegram_links) :
             /\ probe_count[KeyOf(i)] <= 3
             /\ telegram_links[i].validation_status = "error"
                   => /\ probe_count[KeyOf(i)] = telegram_links[i].retry_count
                      /\ initial_probes[KeyOf(i)] = 1
                      /\ (i \in failed_links(telegram_links)
                             <=> probe_count[KeyOf(i)] < 3))
    /\ [][\A i \in 1..Len(telegram_links) :
             probe_count[KeyOf(i)] >= 3
                => /\ telegram_links'[i] = telegram_links[i]
                   /\ probe_count'[KeyOf(i)] = probe_count[KeyOf(i)]]_vars
    /\ <>[](failed_links(telegram_links) = {})

\* a Link has failed its initial validation and two retries, and the retry
\* pass after those had nothing to probe
C25_Witness ==
    /\ \E i \in 1..Len(telegram_links) :
          /\ telegram_links[i].validation_status = "error"
          /\ telegram_links[i].retry_count = 3
          /\ probe_count[KeyOf(i)] = 3
          /\ initial_probes[KeyOf(i)] = 1
    /\ failed_links(telegram_links) = {}
    /\ link_call.op = "retry"
    /\ link_call.probed = <<>>

-----------------------------------------------------------------------------
\* Claims about failures inside a matching pass

\* C21: in a matching pass, a failure while one candidate is handled (in
\* its dedup lookup or in the creation of its CredentialLeak or Alert)
\* never keeps the remaining candidates of the pass from being processed,
\* and the alerts created earlier in the pass stay stored.
C21_CandidateFailureIsolated ==
    [][/\ \A w \in Workers : PassEnds(w) => index[w] > Len(matches[w])
       /\ \A i \in 1..Len(alerts) :
             i <= Len(alerts') /\ alerts'[i] = alerts[i]]_vars

-----------------------------------------------------------------------------
\* Matching passes for two owners

\* two owners monitor the same password; passes are started for either
InitOwners ==
    /\ monitored = <<Credential(1, 1, "password", PasswordValue, TRUE),
                     Credential(2, 2, "password", PasswordValue, TRUE)>>
    /\ leaks = <<>>
    /\ alerts = <<>>
    /\ corpus = {HitA}
    /\ now = 0
    /\ queue = MaxTasks
    /\ pool_size \in Workers
    /\ WorkersIdle
    /\ RiskIdle
    /\ LinkIdle
    /\ JobsIdle
    /\ ConfIdle

SpecOwners == InitOwners /\ [][Next]_vars

\* the owner of the watchlist entry with primary key pk
OwnerOf(pk) ==
    LET i == CHOOSE j \in 1..Len(monitored) : monitored[j].id = pk
    IN monitored[i].user

\* worker w skips its candidate because the dedup lookup found an alert
Suppresses(w) ==
    pc[w] = "loop" /\ pc'[w] = "loop" /\ index'[w] = index[w] + 1

\* C30: every CredentialLeak and Alert that process_matches_for_user(u)
\* creates has user u and refers to a monitored credential of u; a pass for
\* one owner reads no watchlist entry of another owner, and it creates and
\* suppresses no alert of another owner.
C30_OwnerIsolation ==
    /\ [](/\ \A w \in Workers : \A i \in 1..Len(matches[w]) :
                matches[w][i].credential.user = user[w]
          /\ \A i \in 1..Len(leaks) :
                OwnerOf(leaks[i].monitored_credential) = leaks[i].user
          /\ \A i \in 1..Len(alerts) :
                leaks[alerts[i].credential_leak].user = alerts[i].user)
    /\ [][\A w \in Workers :
             /\ (StoresLeak(w) /\ Len(leaks') = Len(leaks) + 1)
                   => leaks'[Len(leaks')].user = user[w]
             /\ (pc[w] = "create_alert" /\ pc'[w] = "loop"
                    /\ alerts_created'[w] = alerts_created[w] + 1)
                   => \E i \in (Len(alerts) + 1)..Len(alerts') :
                         /\ alerts'[i].user = user[w]
                         /\ alerts'[i].credential_leak = credential_leak[w]
             /\ Suppresses(w)
                   => \E i \in 1..Len(alerts) :
                         /\ alerts[i].user = user[w]
                         /\ leaks[alerts[i].credential_leak].monitored_credential
                               = matches[w][index[w]].credential.id]_vars

\* within one hour a pass of owner 1 and then a pass of owner 2 have each
\* created an alert for the password both owners monitor
C30_Witness ==
    /\ Len(alerts) = 2
    /\ alerts[1].user = 1
    /\ alerts[2].user = 2
    /\ alerts[2].created_at < alerts[1].created_at + HourTicks
    /\ leaks[alerts[1].credential_leak].leaked_value
          = leaks[alerts[2].credential_leak].leaked_value
    /\ \E w \in Workers :
          /\ user[w] = 2
          /\ pc[w] = "loop"
          /\ alerts_created[w] = 1

-----------------------------------------------------------------------------
\* The Celery tasks, requested over and over

\* an alert of owner 1 that is unread and has had no e-mail
UnsentAlert ==
    [id |-> 1, user |-> 1, alert_type |-> "leak_detected", priority |-> "high",
     credential_leak |-> 0, is_read |-> FALSE, is_resolved |-> FALSE,
     email_sent |-> FALSE, created_at |-> 0]

\* three owners have a watchlist entry, the entry of the second may be
\* inactive; one alert waits for its notification
InitTasks ==
    /\ \E a \in BOOLEAN :
          monitored = <<Credential(1, 1, "password", PasswordValue, TRUE),
                        Credential(2, 2, "password", PasswordValue, a),
                        Credential(3, 3, "password", PasswordValue, TRUE)>>
    /\ leaks = <<>>
    /\ alerts = <<UnsentAlert>>
    /\ corpus = {}
    /\ now = 0
    /\ queue = 0
    /\ pool_size = 0
    /\ WorkersIdle
    /\ TasksIdle
    /\ BatchIdle
    /\ FilesIdle
    /\ ScrapeIdle
    /\ RiskIdle
    /\ ConfIdle
    /\ LinkIdle

NextTasks ==
    \/ \E t \in TaskNames : ApplyTask(t)
    \/ BeginTask
    \/ TaskBodyFails
    \/ NotificationsFail
    \/ ProcessDataSucceeds
    \/ EnterUserLoop
    \/ MatchNextUser
    \/ UserLoopEnds

SpecTasks == InitTasks /\ [][NextTasks]_vars

\* the execution of the request fails in this step
ExecutionFails == task_pc \in {"body", "loop"} /\ task_pc' \in {"waiting", "failed"}

\* C23: a background task that fails at task level is retried at most 3
\* times, with a countdown of 60 * 2^k seconds before retry k (k = 0, 1,
\* 2); after the third retry has failed no further retry is scheduled; and
\* in match_credentials_for_all_users the failure of the matching of one
\* user is recorded and the task goes on with the next user instead of
\* aborting the run.
C23_TaskRetriesBounded ==
    /\ [](/\ Len(countdowns) <= 3
          /\ request_retries = Len(countdowns)
          /\ \A k \in 0..2 :
                k < Len(countdowns) => countdowns[k + 1] = 60 * (2 ^ k))
    /\ [][/\ ExecutionFails =>
                IF request_retries < 3
                THEN /\ task_pc' = "waiting"
                     /\ Len(countdowns') = Len(countdowns) + 1
                ELSE /\ task_pc' = "failed"
                     /\ countdowns' = countdowns
          /\ (task_pc = "loop" /\ users_left # <<>> /\ user_log' # user_log) =>
                /\ task_pc' = "loop"
                /\ users_left' = Tail(users_left)
                /\ Len(user_log') = Len(user_log) + 1
                /\ user_log'[Len(user_log')].user = Head(users_left)
                /\ ~ExecutionFails
          /\ (task_pc = "loop" /\ task_pc' # "loop") =>
                /\ task_pc' = "succeeded"
                /\ [i \in 1..Len(user_log) |-> user_log[i].user]
                      = ActiveUsers(monitored)]_vars

\* match_credentials_for_all_users has failed three times and been retried
\* after 60, 120 and 240 seconds; its fourth execution has come to the
\* end although the matching of the first user failed
C23_Witness ==
    /\ task = "match_credentials_for_all_users"
    /\ task_pc = "succeeded"
    /\ countdowns = <<60, 120, 240>>
    /\ Len(user_log) = 3
    /\ user_log[1].failed
    /\ user_log[2].alerts_created = 1

\* the alerts send_alert_notifications is to notify: unread, no e-mail yet
UnsentAlerts == {i \in 1..Len(alerts) : ~alerts[i].is_read /\ ~alerts[i].email_sent}

\* C22: after a notification attempt for an Alert has failed, the core
\* never attempts to notify for that Alert again: a later run of
\* send_alert_notifications does not send it again, and the failure of the
\* send of one alert neither aborts the run for the other alerts nor
\* triggers a retry of the task.
C22_NotificationNotRetried ==
    [][\A i \in UnsentAlerts :
          (task = "send_alert_notifications" /\ ExecutionFails)
             => task_pc' # "waiting"]_vars

-----------------------------------------------------------------------------
\* validate_links_batch on batches of every size up to MaxLinks

InitBatch ==
    /\ batch_pc = "called"
    /\ \E n \in 0..MaxLinks : link_task = [i \in 1..n |-> "listed"]
    /\ semaphore = 0
    /\ valid_results = <<>>
    /\ logged = {}
    /\ TasksIdle
    /\ FilesIdle
    /\ ScrapeIdle
    /\ RiskIdle
    /\ ConfIdle
    /\ MatchIdle
    /\ LinkIdle

NextBatch ==
    \/ \E n \in 0..MaxLinks : StartBatch(n)
    \/ \E i \in 1..MaxLinks : EnterSemaphore(i)
    \/ \E i \in 1..MaxLinks : LeaveSemaphore(i)
    \/ GatherReturns

SpecBatch == InitBatch /\ [][NextBatch]_vars

\* the event loop runs a task that can go on, and every lookup of
\* validate_single_link comes back
SpecBatchRuns == SpecBatch /\ WF_vars(NextBatch)

\* the links whose probe is in flight
InFlight == {i \in 1..Len(link_task) : link_task[i] = "in_flight"}

\* C24: during validate_links_batch at most max_concurrent (by default 5)
\* link probes are in flight at every moment, for any number of links in
\* the batch, and every link of the batch is probed in the end and gives
\* exactly one result (or one logged exception).
C24_ProbesBounded ==
    /\ [](Cardinality(InFlight) <= 5)
    /\ [](batch_pc = "returned" =>
             \A i \in 1..Len(link_task) :
                /\ link_task[i] \in {"result", "raised"}
                /\ Occurrences(i, valid_results) + (IF i \in logged THEN 1 ELSE 0) = 1)
    /\ [][\A i \in 1..Len(link_task) :
             link_task[i] \in {"result", "raised"} => link_task'[i] = link_task[i]]_vars
    /\ <>(batch_pc = "returned")

\* a batch of more than five links has five probes in flight and a link
\* whose task waits for the semaphore
C24_Witness ==
    /\ batch_pc = "gather"
    /\ Len(link_task) > 5
    /\ Cardinality(InFlight) = 5
    /\ semaphore = 0
    /\ \E i \in 1..Len(link_task) : link_task[i] = "created"

-----------------------------------------------------------------------------
\* cleanup_old_data among the views that resolve alerts and judge leaks

\* a user has two leaks, found by matching, with one alert each
InitCleanup ==
    /\ monitored = <<>>
    /\ leaks = <<StoredLeak(1, 1, 0), StoredLeak(2, 1, 0)>>
    /\ alerts = <<StoredAlert(1, 1, 1, 0), StoredAlert(2, 1, 2, 0)>>
    /\ corpus = {}
    /\ now = 0
    /\ queue = 0
    /\ pool_size = 0
    /\ WorkersIdle
    /\ RiskIdle
    /\ ConfIdle
    /\ LinkIdle
    /\ JobsIdle

NextCleanup ==
    \/ \E a \in 1..2, resolution \in {"resolved", "false_positive"} :
          resolve_alert(a, resolution)
    \/ \E a \in 1..2, new_status \in {"read", "resolved", "archived"} :
          update_alert_status(a, new_status)
    \/ \E l \in 1..2, status \in {"investigating", "false_positive"} :
          CredentialLeakDetailView_patch(l, status)
    \/ cleanup_old_data
    \/ TimePasses

SpecCleanup == InitCleanup /\ [][NextCleanup]_vars

\* the alert is no longer stored after the step
Deleted(a) == \A j \in 1..Len(alerts') : alerts'[j].id # a.id

\* C29: cleanup_old_data removes only Alerts that are resolved with
\* resolved_at older than the cutoff (and CredentialLeaks that are
\* false_positive and discovered before the cutoff): an Alert that is
\* unresolved, or resolved more recently than the cutoff, is never deleted
\* by a cleanup run.
C29_CleanupDeletesOnlyOld ==
    [][/\ \A a \in Range(alerts) :
             Deleted(a) => /\ a.is_resolved
                           /\ a.resolved_at # None
                           /\ a.resolved_at[1] < cutoff_date
       /\ \A l \in Range(leaks) :
             (\A j \in 1..Len(leaks') : leaks'[j].id # l.id)
                => l.status = "false_positive" /\ l.discovered_at < cutoff_date]_vars

-----------------------------------------------------------------------------
\* process_file_task, queued several times and run by several workers

\* the message of the first key is stored, the message of the second may
\* be gone
InitFiles ==
    /\ processed_files = {}
    /\ file_key \in [Invocations -> FileKeys]
    /\ file_pc = [i \in Invocations |-> "queued"]
    /\ file_created = [i \in Invocations |-> FALSE]
    /\ file_result = [i \in Invocations |-> FALSE]
    /\ file_returned = [i \in Invocations |-> "nothing"]
    /\ process_file_calls = <<>>
    /\ TasksIdle
    /\ BatchIdle
    /\ ScrapeIdle
    /\ RiskIdle
    /\ ConfIdle
    /\ MatchIdle
    /\ LinkIdle

NextFiles ==
    \/ \E i \in Invocations : GetMessage(i, {1})
    \/ \E i \in Invocations : GetOrCreate(i)
    \/ \E i \in Invocations : SaveProcessing(i)
    \/ \E i \in Invocations : ProcessFileCall(i)
    \/ \E i \in Invocations : SaveFailed(i)
    \/ \E i \in Invocations : SaveCompleted(i)
    \/ \E i \in Invocations : ReturnSuccess(i)
    \/ \E i \in Invocations : ExceptionPath(i)

SpecFiles == InitFiles /\ [][NextFiles]_vars

\* the invocation takes a step
Steps(i) == file_pc'[i] # file_pc[i]

-----------------------------------------------------------------------------
\* requests to scrape one channel, their tasks and the scraper

InitScrape ==
    /\ channel = NewChannel
    /\ stored = {}
    /\ posted = 1
    /\ view_pc = [r \in Requests |-> "request"]
    /\ view_channel = [r \in Requests |-> NewChannel]
    /\ scrape_pc = [r \in Requests |-> "none"]
    /\ sync = [r \in Requests |-> FALSE]
    /\ offset_id = [r \in Requests |-> 0]
    /\ task_channel = [r \in Requests |-> NewChannel]
    /\ scraper_channel = [r \in Requests |-> NewChannel]
    /\ cursor = [r \in Requests |-> 0]
    /\ last_message_id = [r \in Requests |-> 0]
    /\ result = [r \in Requests |-> [success |-> FALSE, last_message_id |-> 0]]
    /\ TasksIdle
    /\ BatchIdle
    /\ FilesIdle
    /\ RiskIdle
    /\ ConfIdle
    /\ MatchIdle
    /\ LinkIdle

NextScrape ==
    \/ \E r \in Requests : ViewGet(r)
    \/ \E r \in Requests : ViewDelay(r)
    \/ \E r \in Requests : ViewDelayFails(r)
    \/ \E r \in Requests : ViewSave(r)
    \/ \E r \in Requests : ViewScraped(r)
    \/ \E r \in Requests : TaskGet(r)
    \/ \E r \in Requests : TaskSaveRunning(r)
    \/ \E r \in Requests : TaskRaises(r)
    \/ \E r \in Requests : ScraperStarts(r)
    \/ \E r \in Requests : ScraperFails(r)
    \/ \E r \in Requests : ScrapeMessage(r)
    \/ \E r \in Requests : ScraperReturns(r)
    \/ \E r \in Requests : TaskSaveResult(r)
    \/ NewPost

SpecScrape == InitScrape /\ [][NextScrape]_vars

\* r is the one request that was made
Alone(r) == \A q \in Requests \ {r} : view_pc[q] = "request"

\* the moves of scraping_status that a job makes: it is queued, runs, ends
StatusMoves ==
    {<<"IDLE", "PENDING">>, <<"COMPLETED", "PENDING">>, <<"FAILED", "PENDING">>,
     <<"PENDING", "RUNNING">>, <<"RUNNING", "COMPLETED">>, <<"RUNNING", "FAILED">>}

\* C27: under every interleaving of the scrape_telegram_channel view
\* (which queues the task and then saves scraping_task_id and
\* scraping_status PENDING) with scrape_channel_task (which saves RUNNING
\* and later COMPLETED or FAILED from its own copy of the channel), once
\* the task has finished the channel's scraping_status is COMPLETED or
\* FAILED and its scraping_task_id is the id of that task; the status only
\* moves PENDING -> RUNNING -> COMPLETED|FAILED.
C27_StatusFollowsTask ==
    /\ [](\A r \in Requests :
            (Alone(r) /\ ~sync[r] /\ view_pc[r] = "done" /\ scrape_pc[r] = "returned")
               => /\ channel.scraping_status \in {"COMPLETED", "FAILED"}
                  /\ channel.scraping_task_id = r)
    /\ [][\A r \in Requests :
            (Alone(r) /\ ~sync[r]
                /\ channel'.scraping_status # channel.scraping_status)
               => <<channel.scraping_status, channel'.scraping_status>> \in StatusMoves]_vars

\* C28: a channel's last_scraped_msg_id never decreases over any sequence
\* of scrape tasks for that channel, including overlapping tasks started
\* from the same offset and tasks in which every fetched message is
\* already stored.
C28_LastScrapedNeverDecreases ==
    [][channel'.last_scraped_msg_id >= channel.last_scraped_msg_id]_vars

=============================================================================
